---- MODULE Spec2Model ----
(***************************************************************************)
(* bevy_pixel_widgets: the UI session's command channel, the per-frame     *)
(* update systems and the draw reconciliation, as state machines.          *)
(*                                                                         *)
(* ChanSpec   one session's bounded command channel (src/src/lib.rs):      *)
(*            producers holding cloned senders, the draining consumer,     *)
(*            and the drop of the receiver.                                *)
(* LiveSpec   the same channel with producers that never stop sending,     *)
(*            under weak fairness of the UI thread.                        *)
(* FrameSpec  the frames of the two revisions of the update code:          *)
(*            "new" is UpdateUi::run (src/src/update.rs), "old" is         *)
(*            update_ui (src/src/event.rs) followed by render_ui           *)
(*            (src/src/pixel_widgets_node.rs).                             *)
(***************************************************************************)
EXTENDS Integers, Sequences, FiniteSets, TLC

\* ------------------------------------------------------------------ bounds

\* Tasks holding a clone of the session's EventSender.
NumProducers == 2
\* send_event calls observed in one behaviour of ChanSpec.
MaxSends == 102
\* send_event calls observed after the receiver was dropped.
MaxLateSends == 1

\* UI entities of the model type.
NumUi == 2
\* Frames run in one behaviour of FrameSpec.
MaxFrames == 2
\* Host input events delivered between two frames.
MaxBatch == 1
\* Commands sent by background tasks in one behaviour of FrameSpec.
MaxTaskSends == 2
\* Versions of the stylesheet asset the asset server delivers (hot reload).
NumStyles == 2
\* Vertices of the longest DrawList.
MaxVerts == 1


\* UI entities the render systems of RenderSpec iterate over.
NumRenderUi == 2
\* Entity runs in one behaviour of RenderSpec: its frames times its entities.
MaxRenderFrames == 2
\* Updates of the longest DrawList of RenderSpec.
MaxUpdates == 1
\* Draw commands of the longest DrawList of RenderSpec.
MaxCommands == 2
\* Texture ids the library hands out.
NumTextures == 2

\* Frames run in one behaviour of KeySpec.
MaxKeyFrames == 2
\* Keyboard events the host delivers between two frames of KeySpec.
MaxKeys == 2

\* Frames run in one behaviour of InputSpec.
MaxInputFrames == 1
\* Host events delivered before a frame of InputSpec, over all readers.
MaxInput == 2

Producers == 1..NumProducers
UIs == 1..NumUi
TexIds == 1..NumTextures
RenderUIs == 1..NumRenderUi

\* ------------------------------------------------------- session channel

VARIABLES
    channel,    \* buffer of the sync_channel: commands sent and not yet received
    receiver,   \* TRUE while Ui.receiver exists (the UI entity is alive)
    senders,    \* per producer: position in send_event, the command it holds, its last result
    model,      \* the commands ui.command() has been given, in order
    ui_pc,      \* UI thread: "idle", "draining" (inside process_commands), "gone"
    sent,       \* history: commands whose send_event returned Ok, in order of enqueue
    calls,      \* history: number of send_event calls made so far
    late,       \* history: number of send_event calls made after the receiver was dropped
    observe     \* TRUE when the history variables are recorded

chanVars == <<channel, receiver, senders, model, ui_pc, sent, calls, late, observe>>

VARIABLES
    rev,                  \* revision of the update code: "old" or "new"
    fpc,                  \* where the frame is: [at, u]
    frames,               \* frames started so far
    primary,              \* size of the primary window
    host,                 \* host events delivered since the last frame, per event reader
    stylesheets,          \* Assets<Stylesheet>: version of the loaded stylesheet, 0 when not loaded
    handle,               \* per entity: whether it carries a Handle<Stylesheet> (odd ones do)
    modifiers,            \* Local<State>.modifiers
    events,               \* the frame's translated input events
    current_window_size,  \* render_ui's State.current_window_size
    new_window_size,      \* render_ui's local of that name
    wrapper,              \* per entity: Ui.window and the commands waiting in Ui.receiver
    ui,                   \* per entity: the pixel_widgets session, with the calls made on it this frame
    draw,                 \* per entity: vertex buffer, pending updates, draw commands
    buffers,              \* buffers alive in the render resource context
    next_buffer,          \* buffers created so far
    task_sends,           \* history: commands sent by background tasks
    last_seen             \* history: the window size the previous frame ran with

frameVars == <<rev, fpc, frames, primary, host, stylesheets, handle, modifiers, events,
               current_window_size, new_window_size, wrapper, ui, draw, buffers,
               next_buffer, task_sends, last_seen>>

VARIABLES
    textures,         \* per entity: the id-to-texture map, 0 where the id is absent
    vertex_buffer,    \* per entity: Option<BufferId> of the component
    draw_commands,    \* per entity: the draw commands stored by the last redraw
    draw_updates,     \* per entity: UiDraw.updates, the updates extended and not yet consumed
    host_textures,    \* textures alive in the render resource context
    next_texture,     \* textures created so far
    sampler_id,       \* State.sampler_id
    samplers,         \* samplers created so far
    pipelines,        \* specialized pipelines compiled so far
    bind_group_set,   \* render_ui's local of that name
    render_commands,  \* draw.render_commands: the commands emitted by the run in progress
    command_buffer,   \* State.command_buffer: the commands of the last finished run
    ops,              \* history: the resource calls of the last entity step, in order
    last_draw,        \* history: the DrawList the last entity step was given, None without redraw
    entities          \* the number of UI entities in the world

renderVars == <<textures, vertex_buffer, draw_commands, draw_updates, host_textures, next_texture,
                sampler_id, samplers, pipelines, bind_group_set, render_commands,
                command_buffer, ops, last_draw, entities>>

VARIABLES
    key_rev,     \* revision of the keyboard loop: "old" (event.rs) or "new" (update.rs)
    key_mods,    \* the persistent modifier record
    key_in,      \* history: the keyboard events of the last frame, in host order
    key_before,  \* history: the modifier record the last frame began with
    key_out,     \* the events the keyboard loop of the last frame appended
    key_held,    \* history: the key codes that were down when the last frame began
    key_frames   \* frames run so far

keyVars == <<key_rev, key_mods, key_in, key_before, key_out, key_held, key_frames>>

VARIABLES
    msaa,             \* Msaa.samples of the app
    app_systems,      \* the systems added to the app's update stage, in order
    app_assets,       \* the asset types added to the app
    app_loaders,      \* the asset loaders initialised in the app
    graph_nodes,      \* RenderGraph: the names of its nodes
    pass_samples,     \* sample_count of the UI node's PassDescriptor
    slot_edges,       \* RenderGraph: <<output node, output slot, input node, input slot>>
    node_edges,       \* RenderGraph: <<output node, input node>>
    pipeline_assets,  \* Assets<PipelineDescriptor>: the handles that hold a descriptor
    pipeline_builds,  \* calls of build_ui_pipeline so far
    registered,       \* the models of the UiPlugin builds so far, in order
    loader_calls      \* the calls made on the sessions' DisabledLoader: [method, path, out]

pluginVars == <<msaa, app_systems, app_assets, app_loaders, graph_nodes, pass_samples,
                slot_edges, node_edges, pipeline_assets, pipeline_builds, registered,
                loader_calls>>

VARIABLES
    pass,             \* the last update of the graph node: [calls on the pass, ok]
    node_updates,     \* updates of the graph node so far
    handed            \* history: render_ui stored a list since the node's last update

nodeVars == <<pass, node_updates, handed>>

VARIABLES
    produced          \* the host's input events of the frame, in the order of production

hostVars == <<produced>>

restVars == <<renderVars, keyVars, pluginVars, nodeVars, hostVars>>

vars == <<chanVars, frameVars, restVars>>

\* std::sync::mpsc::sync_channel(100)
CAPACITY == 100

\* The command a producer passes to its next send_event: commands are told
\* apart by the order of the calls while the history is recorded.
NextCommand == IF observe THEN calls + 1 ELSE 0

Record(log, c) == IF observe THEN Append(log, c) ELSE log

\* Ui::new: a fresh channel; the sender is handed to the session, clones to tasks.
UiNew ==
    /\ channel = <<>>
    /\ receiver = TRUE
    /\ senders = [p \in Producers |-> [pc |-> "idle", cmd |-> 0, result |-> "none"]]
    /\ model = <<>>
    /\ ui_pc = "idle"
    /\ sent = <<>>
    /\ calls = 0
    /\ late = 0

\* send_event on a channel that never fills: the capacity is not looked at.
send_event_unbounded(p) ==
    /\ senders[p].pc = "idle"
    /\ observe => (calls < MaxSends /\ (~receiver => late < MaxLateSends))
    /\ LET c == NextCommand IN
       /\ calls' = IF observe THEN calls + 1 ELSE calls
       /\ late' = IF observe /\ ~receiver THEN late + 1 ELSE late
       /\ IF ~receiver
             THEN /\ senders' = [senders EXCEPT ![p] = [pc |-> "idle", cmd |-> c, result |-> "err"]]
                  /\ UNCHANGED <<channel, sent>>
             ELSE /\ channel' = Append(channel, c)
                  /\ sent' = Record(sent, c)
                  /\ senders' = [senders EXCEPT ![p] = [pc |-> "idle", cmd |-> 0, result |-> "ok"]]
    /\ UNCHANGED <<receiver, model, ui_pc, observe, frameVars, restVars>>

\* send_event that does not notice the receiver is gone.
send_event_to_nobody(p) ==
    /\ senders[p].pc = "idle"
    /\ observe => (calls < MaxSends /\ (~receiver => late < MaxLateSends))
    /\ LET c == NextCommand IN
       /\ calls' = IF observe THEN calls + 1 ELSE calls
       /\ late' = IF observe /\ ~receiver THEN late + 1 ELSE late
       /\ IF Len(channel) < CAPACITY
             THEN /\ channel' = Append(channel, c)
                  /\ sent' = Record(sent, c)
                  /\ senders' = [senders EXCEPT ![p] = [pc |-> "idle", cmd |-> 0, result |-> "ok"]]
             ELSE /\ senders' = [senders EXCEPT ![p] = [pc |-> "blocked", cmd |-> c, result |-> "none"]]
                  /\ UNCHANGED <<channel, sent>>
    /\ UNCHANGED <<receiver, model, ui_pc, observe, frameVars, restVars>>

\* SyncSender::send as called by EventSender::send_event: enqueue when there
\* is room, park the caller when the buffer is full, fail with the command
\* when the receiver is gone.
send_event(p) ==
    /\ senders[p].pc = "idle"
    /\ observe => (calls < MaxSends /\ (~receiver => late < MaxLateSends))
    /\ LET c == NextCommand IN
       /\ calls' = IF observe THEN calls + 1 ELSE calls
       /\ late' = IF observe /\ ~receiver THEN late + 1 ELSE late
       /\ IF ~receiver
             THEN /\ senders' = [senders EXCEPT ![p] = [pc |-> "idle", cmd |-> c, result |-> "err"]]
                  /\ UNCHANGED <<channel, sent>>
          ELSE IF Len(channel) < CAPACITY
             THEN /\ channel' = Append(channel, c)
                  /\ sent' = Record(sent, c)
                  /\ senders' = [senders EXCEPT ![p] = [pc |-> "idle", cmd |-> 0, result |-> "ok"]]
             ELSE /\ senders' = [senders EXCEPT ![p] = [pc |-> "blocked", cmd |-> c, result |-> "none"]]
                  /\ UNCHANGED <<channel, sent>>
    /\ UNCHANGED <<receiver, model, ui_pc, observe, frameVars, restVars>>

\* A parked send_event resumes: it enqueues its command once the buffer has
\* room, or fails with it once the receiver is gone.
send_event_resume(p) ==
    /\ senders[p].pc = "blocked"
    /\ IF ~receiver
          THEN /\ senders' = [senders EXCEPT ![p] = [pc |-> "idle", cmd |-> senders[p].cmd, result |-> "err"]]
               /\ UNCHANGED <<channel, sent>>
          ELSE /\ Len(channel) < CAPACITY
               /\ channel' = Append(channel, senders[p].cmd)
               /\ sent' = Record(sent, senders[p].cmd)
               /\ senders' = [senders EXCEPT ![p] = [pc |-> "idle", cmd |-> 0, result |-> "ok"]]
    /\ UNCHANGED <<receiver, model, ui_pc, calls, late, observe, frameVars, restVars>>

\* A task finishes and drops its clone of the sender.
drop_sender(p) ==
    /\ senders[p].pc = "idle"
    /\ senders' = [senders EXCEPT ![p] = [pc |-> "dropped", cmd |-> 0, result |-> "none"]]
    /\ UNCHANGED <<channel, receiver, model, ui_pc, sent, calls, late, observe, frameVars, restVars>>

\* pixel_widgets::Ui::command as seen from this crate: the model is given the command.
ui_command(m, cmd) == Record(m, cmd)

\* process_commands is entered: receiver.get_mut().unwrap().try_iter()
process_commands ==
    /\ ui_pc = "idle"
    /\ ui_pc' = "draining"
    /\ UNCHANGED <<channel, receiver, senders, model, sent, calls, late, observe, frameVars, restVars>>

\* A loop turn that takes the newest command instead of the oldest.
process_commands_next_newest ==
    /\ ui_pc = "draining"
    /\ channel # <<>>
    /\ model' = ui_command(model, channel[Len(channel)])
    /\ channel' = SubSeq(channel, 1, Len(channel) - 1)
    /\ UNCHANGED <<receiver, senders, ui_pc, sent, calls, late, observe, frameVars, restVars>>

\* One turn of the for loop: try_recv yields the oldest command, ui.command(cmd).
process_commands_next ==
    /\ ui_pc = "draining"
    /\ channel # <<>>
    /\ model' = ui_command(model, Head(channel))
    /\ channel' = Tail(channel)
    /\ UNCHANGED <<receiver, senders, ui_pc, sent, calls, late, observe, frameVars, restVars>>

\* A loop that waits on an empty channel (recv for try_recv): it ends only
\* when every sender is gone.
process_commands_end_waiting ==
    /\ ui_pc = "draining"
    /\ channel = <<>>
    /\ \A p \in Producers : senders[p].pc = "dropped"
    /\ ui_pc' = "idle"
    /\ UNCHANGED <<channel, receiver, senders, model, sent, calls, late, observe, frameVars, restVars>>

\* try_recv finds nothing (Empty or Disconnected): the iterator ends, the call returns.
process_commands_end ==
    /\ ui_pc = "draining"
    /\ channel = <<>>
    /\ ui_pc' = "idle"
    /\ UNCHANGED <<channel, receiver, senders, model, sent, calls, late, observe, frameVars, restVars>>

\* The UI entity is despawned: the session and its receiver are dropped, and
\* with the receiver whatever the buffer still held.
drop_receiver ==
    /\ ui_pc = "idle"
    /\ receiver
    /\ receiver' = FALSE
    /\ channel' = <<>>
    /\ ui_pc' = "gone"
    /\ UNCHANGED <<senders, model, sent, calls, late, observe, frameVars, restVars>>

\* The UI thread's own steps on the channel.
UiThread == process_commands \/ process_commands_next \/ process_commands_end

\* -------------------------------------------------------- event translation

None == <<>>
Some(x) == <<x>>

Last(q) == q[Len(q)]

Letters == <<"A", "B", "C", "D", "E", "F", "G", "H", "I", "J", "K", "L", "M",
             "N", "O", "P", "Q", "R", "S", "T", "U", "V", "W", "X", "Y", "Z">>
Lower == <<"a", "b", "c", "d", "e", "f", "g", "h", "i", "j", "k", "l", "m",
           "n", "o", "p", "q", "r", "s", "t", "u", "v", "w", "x", "y", "z">>
Digits == <<"Key0", "Key1", "Key2", "Key3", "Key4", "Key5", "Key6", "Key7", "Key8", "Key9">>
DigitChar == <<"0", "1", "2", "3", "4", "5", "6", "7", "8", "9">>
ShiftDigitChar == <<"!", "@", "#", "$", "%", "^", "&", "*", "(", ")">>

Range(q) == {q[i] : i \in 1..Len(q)}
IndexOf(q, x) == CHOOSE i \in 1..Len(q) : q[i] = x

\* Key codes that translate to the key of the same name.
SameName == Range(Letters) \cup Range(Digits) \cup
            {"Escape", "Tab", "Space", "Home", "End", "Left", "Right", "Up", "Down"}

\* translate_key_code: Some(key) for a recognized key code, None otherwise.
translate_key_code(key_code) ==
    CASE key_code \in SameName -> Some(key_code)
      [] key_code = "LShift" -> Some("Shift")
      [] key_code = "LControl" -> Some("Ctrl")
      [] key_code = "LAlt" -> Some("Alt")
      [] key_code = "Return" -> Some("Enter")
      [] key_code = "Back" -> Some("Backspace")
      [] OTHER -> None

\* translate_key_to_text: the character a key types, by the shift flag alone.
translate_key_to_text(key, mods) ==
    CASE key \in Range(Letters) ->
            Some(IF mods.shift THEN key ELSE Lower[IndexOf(Letters, key)])
      [] key \in Range(Digits) ->
            Some(IF mods.shift THEN ShiftDigitChar[IndexOf(Digits, key)]
                               ELSE DigitChar[IndexOf(Digits, key)])
      [] key = "Space" -> Some(" ")
      [] OTHER -> None

\* A button table without the arm that drops the other buttons.
translate_mouse_button_any(button) ==
    CASE button = "Left" -> Some("LeftMouseButton")
      [] button = "Right" -> Some("RightMouseButton")
      [] OTHER -> Some("MiddleMouseButton")

\* translate_mouse_button
translate_mouse_button(button) ==
    CASE button = "Left" -> Some("LeftMouseButton")
      [] button = "Right" -> Some("RightMouseButton")
      [] button = "Middle" -> Some("MiddleMouseButton")
      [] OTHER -> None

\* The first match of the keyboard loop: a modifier key code sets its flag.
\* Both revisions store the logo keys' state in the shift flag.
modifier_update(mods, ev) ==
    LET down == (ev.state = "Pressed") IN
    CASE ev.key_code \in {"LControl", "RControl"} -> [mods EXCEPT !.ctrl = down]
      [] ev.key_code \in {"LAlt", "RAlt"} -> [mods EXCEPT !.alt = down]
      [] ev.key_code \in {"LShift", "RShift"} -> [mods EXCEPT !.shift = down]
      [] ev.key_code \in {"LWin", "RWin"} -> [mods EXCEPT !.shift = down]
      [] OTHER -> mods

ModifierCodes == {"LControl", "RControl", "LAlt", "RAlt", "LShift", "RShift", "LWin", "RWin"}

\* A keyboard loop that derives a Text from the key in every revision.
keyboard_event_typing(r, acc, ev) ==
    LET mods == modifier_update(acc.mods, ev)
        out1 == IF ev.key_code \in ModifierCodes
                   THEN Append(acc.out, <<"Modifiers", mods>>) ELSE acc.out
        key  == translate_key_code(ev.key_code)
        text == IF key = None THEN None ELSE translate_key_to_text(key[1], mods)
        out2 == IF key = None THEN out1
                ELSE IF ev.state = "Pressed"
                   THEN IF text # None
                           THEN out1 \o <<<<"Text", text[1]>>, <<"Press", key[1]>>>>
                           ELSE Append(out1, <<"Press", key[1]>>)
                   ELSE Append(out1, <<"Release", key[1]>>)
    IN [mods |-> mods, out |-> out2]

\* A keyboard loop whose Pressed arm falls through into the Released arm.
keyboard_event_both(r, acc, ev) ==
    LET mods == modifier_update(acc.mods, ev)
        out1 == IF ev.key_code \in ModifierCodes
                   THEN Append(acc.out, <<"Modifiers", mods>>) ELSE acc.out
        key  == translate_key_code(ev.key_code)
        out2 == IF key = None THEN out1
                ELSE IF ev.state = "Pressed"
                   THEN out1 \o <<<<"Press", key[1]>>, <<"Release", key[1]>>>>
                   ELSE Append(out1, <<"Release", key[1]>>)
    IN [mods |-> mods, out |-> out2]

\* One keyboard event of the loop: acc = [mods, out].
keyboard_event(r, acc, ev) ==
    LET mods == modifier_update(acc.mods, ev)
        out1 == IF ev.key_code \in ModifierCodes
                   THEN Append(acc.out, <<"Modifiers", mods>>) ELSE acc.out
        key  == translate_key_code(ev.key_code)
        text == IF key = None THEN None ELSE translate_key_to_text(key[1], mods)
        out2 == IF key = None THEN out1
                ELSE IF ev.state = "Pressed"
                   THEN IF r = "old" /\ text # None
                           THEN out1 \o <<<<"Text", text[1]>>, <<"Press", key[1]>>>>
                           ELSE Append(out1, <<"Press", key[1]>>)
                   ELSE Append(out1, <<"Release", key[1]>>)
    IN [mods |-> mods, out |-> out2]

RECURSIVE keyboard_events(_, _, _)
keyboard_events(r, acc, evs) ==
    IF evs = <<>> THEN acc
    ELSE keyboard_events(r, keyboard_event(r, acc, Head(evs)), Tail(evs))

RECURSIVE mouse_button_events(_)
mouse_button_events(evs) ==
    IF evs = <<>> THEN <<>>
    ELSE LET key == translate_mouse_button(Head(evs).button)
             one == IF key = None THEN <<>>
                    ELSE IF Head(evs).state = "Pressed" THEN <<<<"Press", key[1]>>>>
                    ELSE <<<<"Release", key[1]>>>>
         IN one \o mouse_button_events(Tail(evs))

Map1(q, tag) == [i \in 1..Len(q) |-> <<tag, q[i]>>]

\* f32: positions are counted in units of 2^-15 pixel, and a value is an f32
\* when its 24 leading bits hold it (every count below 2^24; every second
\* one up to 2^25; and so on).
UNIT == 32768
MANTISSA == 16777216

\* `n as f32` for a whole number of pixels.
f32(n) == n * UNIT

Abs(v) == IF v < 0 THEN 0 - v ELSE v

\* The distance of neighbouring f32 values at magnitude v.
RECURSIVE ulp(_)
ulp(v) == IF v < MANTISSA THEN 1 ELSE 2 * ulp(v \div 2)

\* The f32 nearest to v, ties to the even mantissa.
round_f32(v) ==
    LET a == Abs(v)
        u == ulp(a)
        q == a \div u
        r == a % u
        n == IF 2 * r > u \/ (2 * r = u /\ q % 2 = 1) THEN q + 1 ELSE q
    IN IF v < 0 THEN 0 - n * u ELSE n * u

\* a - b in f32
sub_f32(a, b) == round_f32(a - b)

\* The event queue a frame builds from the host's readers, reader by reader:
\* [mods, out]. The old revision has no character reader and leaves the
\* cursor as the host gave it; the new one flips y against the window height.
translate(r, b, mods, window) ==
    LET resized == [i \in 1..Len(b.resize) |-> <<"Resize", b.resize[i][1], b.resize[i][2]>>]
        keys    == keyboard_events(r, [mods |-> mods, out |-> <<>>], b.keyboard)
        chars   == IF r = "new" THEN Map1(b.chars, "Text") ELSE <<>>
        cursor  == [i \in 1..Len(b.cursor) |->
                       <<"Cursor", b.cursor[i][1],
                         IF r = "new" THEN sub_f32(f32(window[2]), b.cursor[i][2])
                                      ELSE b.cursor[i][2]>>]
        wheel   == [i \in 1..Len(b.wheel) |-> <<"Scroll", b.wheel[i][1], b.wheel[i][2]>>]
    IN [mods |-> keys.mods,
        out  |-> resized \o keys.out \o chars \o cursor \o wheel \o mouse_button_events(b.button)]

\* ------------------------------------------------------ the widget session

\* pixel_widgets::Ui as this crate uses it: [viewport, style, dirty], with
\* two histories: applied, the viewport of the last resize call, and calls,
\* every call the crate makes on the session, which the host step empties
\* when a frame begins.

\* pixel_widgets::Ui::new(model, sender, loader, Rectangle::from_wh(1280.0, 720.0))
Ui_new == [viewport |-> <<1280, 720>>, style |-> 0, dirty |-> TRUE,
           applied |-> None, calls |-> <<>>]

Ui_resize(s, viewport) ==
    [s EXCEPT !.viewport = viewport, !.dirty = TRUE, !.applied = Some(viewport),
              !.calls = Append(@, <<"resize", viewport>>)]

Ui_replace_stylesheet(s, style) ==
    [s EXCEPT !.style = style, !.dirty = TRUE,
              !.calls = Append(@, <<"replace_stylesheet", style>>)]

Ui_command(s, cmd) ==
    [s EXCEPT !.dirty = TRUE, !.calls = Append(@, <<"command", cmd>>)]

\* An event changes the widget tree or not (hit), as the widgets decide.
Ui_event(s, event, hit) ==
    [s EXCEPT !.dirty = @ \/ hit, !.calls = Append(@, <<"event", event>>)]

Ui_needs_redraw(s) == [s EXCEPT !.calls = Append(@, <<"needs_redraw", s.dirty>>)]

Ui_draw(s) == [s EXCEPT !.dirty = FALSE, !.calls = Append(@, <<"draw">>)]

\* A loop that feeds the first event of the queue and leaves the others.
Ui_events_first_only(s, evs, hit) ==
    IF evs = <<>> THEN s ELSE Ui_event(s, Head(evs), hit)

\* for event in events.iter() { ui.event(event) }
RECURSIVE Ui_events(_, _, _)
Ui_events(s, evs, hit) ==
    IF evs = <<>> THEN s ELSE Ui_events(Ui_event(s, Head(evs), hit), Tail(evs), hit)

\* What ui.draw() may return: [vertices], the number of its vertices; its
\* commands cover the vertices, and its updates are kept as one batch.
DrawLists == [vertices : 0..MaxVerts]

\* ----------------------------------------------------------------- the host

SIZES == {<<1280, 720>>, <<800, 600>>}

EmptyBatch == [resize |-> <<>>, keyboard |-> <<>>, chars |-> <<>>,
               cursor |-> <<>>, wheel |-> <<>>, button |-> <<>>]

\* The host events a frame of FrameSpec may be given, one reader at a time.
FrameResize == SIZES
FrameKeyboard == [key_code : {"A"}, state : {"Pressed"}]
FrameChars == {"a"}
FrameCursor == {<<f32(10), f32(20)>>}
FrameWheel == {<<0, 1>>}
FrameButton == [button : {"Left"}, state : {"Pressed"}]

SeqsUpTo(S, n) == UNION {[1..k -> S] : k \in 0..n}

BatchLen(b) == Len(b.resize) + Len(b.keyboard) + Len(b.chars)
               + Len(b.cursor) + Len(b.wheel) + Len(b.button)

FrameBatches ==
    {b \in [resize : SeqsUpTo(FrameResize, MaxBatch),
            keyboard : SeqsUpTo(FrameKeyboard, MaxBatch),
            chars : SeqsUpTo(FrameChars, MaxBatch),
            cursor : SeqsUpTo(FrameCursor, MaxBatch),
            wheel : SeqsUpTo(FrameWheel, MaxBatch),
            button : SeqsUpTo(FrameButton, MaxBatch)] : BatchLen(b) <= MaxBatch}

\* Between two frames the host delivers its events; a resize notification
\* carries the size the window now has (which may be the size it had), and
\* the asset server may deliver the stylesheet or a newer version of it.
host_frame ==
    /\ fpc.at = "idle"
    /\ frames < MaxFrames
    /\ frames' = frames + 1
    /\ \E b \in FrameBatches :
          /\ host' = b
          /\ primary' = IF b.resize # <<>> THEN Last(b.resize) ELSE primary
    /\ stylesheets' \in {stylesheets} \cup {v \in {stylesheets + 1} : v <= NumStyles}
    /\ ui' = [u \in UIs |-> [ui[u] EXCEPT !.calls = <<>>]]
    /\ fpc' = [at |-> "collect", u |-> 0]
    /\ UNCHANGED <<rev, last_seen, handle, modifiers, events, current_window_size, new_window_size,
                   wrapper, draw, buffers, next_buffer, task_sends, chanVars, restVars>>

\* The host events a frame of InputSpec may be given: every mouse button in
\* both states, wheel deltas, cursor positions on and between whole pixels,
\* characters, keys, sizes.
InputButton == [button : {"Left", "Right", "Middle", "Other"}, state : {"Pressed", "Released"}]
InputWheel == {<<0, 1>>, <<0 - 2, 3>>}
InputCursor == {<<f32(10), f32(20)>>, <<f32(10) + 1, f32(20) + 1>>}
InputChars == {"a", "Z"}
InputKeyboard == [key_code : {"A", "LShift"}, state : {"Pressed"}]

InputBatches ==
    {b \in [resize : SeqsUpTo(SIZES, MaxInput),
            keyboard : SeqsUpTo(InputKeyboard, MaxInput),
            chars : SeqsUpTo(InputChars, MaxInput),
            cursor : SeqsUpTo(InputCursor, MaxInput),
            wheel : SeqsUpTo(InputWheel, MaxInput),
            button : SeqsUpTo(InputButton, MaxInput)] : BatchLen(b) <= MaxInput}

\* The host step of InputSpec: the events of every reader before a frame.
input_frame ==
    /\ fpc.at = "idle"
    /\ frames < MaxInputFrames
    /\ frames' = frames + 1
    /\ \E b \in InputBatches :
          /\ host' = b
          /\ primary' = IF b.resize # <<>> THEN Last(b.resize) ELSE primary
    /\ ui' = [u \in UIs |-> [ui[u] EXCEPT !.calls = <<>>]]
    /\ fpc' = [at |-> "collect", u |-> 0]
    /\ UNCHANGED <<rev, last_seen, stylesheets, handle, modifiers, events, current_window_size,
                   new_window_size, wrapper, draw, buffers, next_buffer, task_sends,
                   chanVars, restVars>>

\* The host's events of a frame as it produces them: each with its kind.
MaxProduced == 2

HostEvents ==
    ({"resize"} \X SIZES) \cup ({"keyboard"} \X InputKeyboard) \cup ({"chars"} \X InputChars)
    \cup ({"cursor"} \X InputCursor) \cup ({"wheel"} \X InputWheel)
    \cup ({"button"} \X InputButton)

\* Events<T> of one event type: the produced events of that kind, in order.
OfKind(p, kind) ==
    LET own == SelectSeq(p, LAMBDA e : e[1] = kind) IN [i \in 1..Len(own) |-> own[i][2]]

\* What the event readers of a frame hold when the host produced p: the host
\* sends every event to the Events<T> resource of its type.
readers(p) ==
    [resize |-> OfKind(p, "resize"), keyboard |-> OfKind(p, "keyboard"),
     chars |-> OfKind(p, "chars"), cursor |-> OfKind(p, "cursor"),
     wheel |-> OfKind(p, "wheel"), button |-> OfKind(p, "button")]

\* The host step with the order of production recorded: the events reach the
\* readers of their types.
ordered_frame ==
    /\ fpc.at = "idle"
    /\ frames < MaxInputFrames
    /\ frames' = frames + 1
    /\ \E p \in SeqsUpTo(HostEvents, MaxProduced) :
          /\ produced' = p
          /\ host' = readers(p)
          /\ primary' = IF readers(p).resize # <<>> THEN Last(readers(p).resize) ELSE primary
    /\ ui' = [u \in UIs |-> [ui[u] EXCEPT !.calls = <<>>]]
    /\ fpc' = [at |-> "collect", u |-> 0]
    /\ UNCHANGED <<rev, last_seen, stylesheets, handle, modifiers, events, current_window_size,
                   new_window_size, wrapper, draw, buffers, next_buffer, task_sends,
                   chanVars, renderVars, keyVars, pluginVars, nodeVars>>

\* A background task holding a clone of entity u's sender sends a command.
task_send(u) ==
    /\ task_sends < MaxTaskSends
    /\ Len(wrapper[u].receiver) < CAPACITY
    /\ task_sends' = task_sends + 1
    /\ wrapper' = [wrapper EXCEPT ![u].receiver = Append(@, task_sends + 1)]
    /\ UNCHANGED <<rev, last_seen, fpc, frames, primary, host, stylesheets, handle, modifiers, events,
                   current_window_size, new_window_size, ui, draw, buffers, next_buffer,
                   chanVars, restVars>>

\* ------------------------------------------------------- the frame systems

Idle == [at |-> "idle", u |-> 0]

\* A redraw that keeps the vertex buffer the entity has.
replace_vertex_buffer_keeps(old, dl) ==
    IF dl.vertices > 0
       THEN IF old # None
               THEN [vertices |-> old, buffers |-> buffers, next_buffer |-> next_buffer]
               ELSE [vertices |-> Some(next_buffer + 1),
                     buffers |-> buffers \cup {next_buffer + 1},
                     next_buffer |-> next_buffer + 1]
       ELSE [vertices |-> None,
             buffers |-> buffers \ Range(old),
             next_buffer |-> next_buffer]

\* A redraw that creates the fresh buffer and forgets to remove the previous
\* one.
replace_vertex_buffer_leaks(old, dl) ==
    IF dl.vertices > 0
       THEN [vertices |-> Some(next_buffer + 1),
             buffers |-> buffers \cup {next_buffer + 1},
             next_buffer |-> next_buffer + 1]
       ELSE [vertices |-> None,
             buffers |-> buffers \ Range(old),
             next_buffer |-> next_buffer]

\* The vertex buffer after a redraw: a DrawList with vertices gets a fresh
\* buffer and the previous one is removed; an empty one removes the buffer.
\* [vertices, buffers, next_buffer]
replace_vertex_buffer(old, dl) ==
    IF dl.vertices > 0
       THEN [vertices |-> Some(next_buffer + 1),
             buffers |-> (buffers \cup {next_buffer + 1}) \ Range(old),
             next_buffer |-> next_buffer + 1]
       ELSE [vertices |-> None,
             buffers |-> buffers \ Range(old),
             next_buffer |-> next_buffer]

\* UpdateUi::run, up to the entity loop: the frame's event queue.
UpdateUi_collect ==
    /\ rev = "new"
    /\ fpc.at = "collect"
    /\ LET t == translate("new", host, modifiers, primary) IN
          /\ events' = t.out
          /\ modifiers' = t.mods
    /\ last_seen' = primary
    /\ host' = EmptyBatch
    /\ fpc' = [at |-> "entity", u |-> 1]
    /\ UNCHANGED <<rev, frames, primary, stylesheets, handle, current_window_size,
                   new_window_size, wrapper, ui, draw, buffers, next_buffer, task_sends,
                   chanVars, restVars>>

\* A loop body that feeds the frame's events before it drains the commands.
UpdateUi_entity_events_first(u) ==
    /\ rev = "new"
    /\ fpc = [at |-> "entity", u |-> u]
    /\ \E hit \in BOOLEAN :
          LET s1 == IF Some(primary) # wrapper[u].window
                       THEN Ui_resize(ui[u], primary) ELSE ui[u]
              s2 == IF handle[u] /\ stylesheets # 0
                       THEN Ui_replace_stylesheet(s1, stylesheets) ELSE s1
          IN ui' = [ui EXCEPT ![u] = Ui_events(s2, events, hit)]
    /\ wrapper' = [wrapper EXCEPT ![u].window = Some(primary)]
    /\ fpc' = [at |-> "commands", u |-> u]
    /\ UNCHANGED <<rev, last_seen, frames, primary, host, stylesheets, handle, modifiers, events,
                   current_window_size, new_window_size, draw, buffers, next_buffer,
                   task_sends, chanVars, restVars>>

\* UpdateUi::run, the head of the loop body for entity u: resize when the
\* window size is not the one recorded, replace_stylesheet when the entity's
\* stylesheet is loaded.
UpdateUi_entity(u) ==
    /\ rev = "new"
    /\ fpc = [at |-> "entity", u |-> u]
    /\ LET s1 == IF Some(primary) # wrapper[u].window
                    THEN Ui_resize(ui[u], primary) ELSE ui[u]
           s2 == IF handle[u] /\ stylesheets # 0
                    THEN Ui_replace_stylesheet(s1, stylesheets) ELSE s1
       IN ui' = [ui EXCEPT ![u] = s2]
    /\ wrapper' = [wrapper EXCEPT ![u].window = Some(primary)]
    /\ fpc' = [at |-> "commands", u |-> u]
    /\ UNCHANGED <<rev, last_seen, frames, primary, host, stylesheets, handle, modifiers, events,
                   current_window_size, new_window_size, draw, buffers, next_buffer,
                   task_sends, chanVars, restVars>>

\* Ui::update_commands, one turn of its loop: try_recv yields a command.
update_commands_next(u) ==
    /\ rev = "new"
    /\ fpc = [at |-> "commands", u |-> u]
    /\ wrapper[u].receiver # <<>>
    /\ ui' = [ui EXCEPT ![u] = Ui_command(@, Head(wrapper[u].receiver))]
    /\ wrapper' = [wrapper EXCEPT ![u].receiver = Tail(@)]
    /\ UNCHANGED <<rev, last_seen, fpc, frames, primary, host, stylesheets, handle, modifiers, events,
                   current_window_size, new_window_size, draw, buffers, next_buffer,
                   task_sends, chanVars, restVars>>

\* A loop body that redraws without looking at what needs_redraw returned.
UpdateUi_finish_always_draws(u) ==
    /\ rev = "new"
    /\ fpc = [at |-> "commands", u |-> u]
    /\ wrapper[u].receiver = <<>>
    /\ \E hit \in BOOLEAN, dl \in DrawLists :
          LET s1 == Ui_needs_redraw(Ui_events(ui[u], events, hit))
              vb == replace_vertex_buffer(draw[u].vertices, dl)
          IN /\ ui' = [ui EXCEPT ![u] = Ui_draw(s1)]
             /\ draw' = [draw EXCEPT ![u] = [vertices |-> vb.vertices,
                                             updates |-> @.updates + 1,
                                             commands |-> dl.vertices]]
             /\ buffers' = vb.buffers
             /\ next_buffer' = vb.next_buffer
    /\ fpc' = IF u < NumUi THEN [at |-> "entity", u |-> u + 1] ELSE Idle
    /\ UNCHANGED <<rev, last_seen, frames, primary, host, stylesheets, handle, modifiers, events,
                   current_window_size, new_window_size, wrapper, task_sends, chanVars, restVars>>

\* update_commands returns (try_recv found nothing); UpdateUi::run feeds the
\* events, then redraws a session that needs it into the entity's UiDraw.
UpdateUi_finish(u) ==
    /\ rev = "new"
    /\ fpc = [at |-> "commands", u |-> u]
    /\ wrapper[u].receiver = <<>>
    /\ \E hit \in BOOLEAN, dl \in DrawLists :
          LET s1 == Ui_needs_redraw(Ui_events(ui[u], events, hit))
              vb == replace_vertex_buffer(draw[u].vertices, dl)
          IN IF s1.dirty
                THEN /\ ui' = [ui EXCEPT ![u] = Ui_draw(s1)]
                     /\ draw' = [draw EXCEPT ![u] = [vertices |-> vb.vertices,
                                                     updates |-> @.updates + 1,
                                                     commands |-> dl.vertices]]
                     /\ buffers' = vb.buffers
                     /\ next_buffer' = vb.next_buffer
                ELSE /\ ui' = [ui EXCEPT ![u] = s1]
                     /\ UNCHANGED <<draw, buffers, next_buffer>>
    /\ fpc' = IF u < NumUi THEN [at |-> "entity", u |-> u + 1] ELSE Idle
    /\ UNCHANGED <<rev, last_seen, frames, primary, host, stylesheets, handle, modifiers, events,
                   current_window_size, new_window_size, wrapper, task_sends, chanVars, restVars>>

\* update_ui (old revision), up to the entity loop: the frame's event queue.
update_ui_collect ==
    /\ rev = "old"
    /\ fpc.at = "collect"
    /\ LET t == translate("old", host, modifiers, primary) IN
          /\ events' = t.out
          /\ modifiers' = t.mods
    /\ last_seen' = primary
    /\ host' = EmptyBatch
    /\ fpc' = [at |-> "commands", u |-> 1]
    /\ UNCHANGED <<rev, frames, primary, stylesheets, handle, current_window_size,
                   new_window_size, wrapper, ui, draw, buffers, next_buffer, task_sends,
                   chanVars, restVars>>

\* update_ui, one turn of the command loop of entity u.
update_ui_next(u) ==
    /\ rev = "old"
    /\ fpc = [at |-> "commands", u |-> u]
    /\ wrapper[u].receiver # <<>>
    /\ ui' = [ui EXCEPT ![u] = Ui_command(@, Head(wrapper[u].receiver))]
    /\ wrapper' = [wrapper EXCEPT ![u].receiver = Tail(@)]
    /\ UNCHANGED <<rev, last_seen, fpc, frames, primary, host, stylesheets, handle, modifiers, events,
                   current_window_size, new_window_size, draw, buffers, next_buffer,
                   task_sends, chanVars, restVars>>

\* update_ui: the command loop of entity u ends and the events are fed.
update_ui_finish(u) ==
    /\ rev = "old"
    /\ fpc = [at |-> "commands", u |-> u]
    /\ wrapper[u].receiver = <<>>
    /\ \E hit \in BOOLEAN : ui' = [ui EXCEPT ![u] = Ui_events(@, events, hit)]
    /\ fpc' = IF u < NumUi THEN [at |-> "commands", u |-> u + 1]
                           ELSE [at |-> "render", u |-> 0]
    /\ UNCHANGED <<rev, last_seen, frames, primary, host, stylesheets, handle, modifiers, events,
                   current_window_size, new_window_size, wrapper, draw, buffers,
                   next_buffer, task_sends, chanVars, restVars>>

\* render_ui, up to the entity loop: the window size, kept when it is not
\* the recorded current_window_size (which nothing assigns).
render_ui_begin ==
    /\ rev = "old"
    /\ fpc.at = "render"
    /\ new_window_size' = IF current_window_size # Some(primary) THEN Some(primary) ELSE None
    /\ fpc' = [at |-> "render_entity", u |-> 1]
    /\ UNCHANGED <<rev, last_seen, frames, primary, host, stylesheets, handle, modifiers, events,
                   current_window_size, wrapper, ui, draw, buffers, next_buffer,
                   task_sends, chanVars, restVars>>

\* render_ui, the loop body for entity u: resize to a new window size, then
\* redraw a session that needs it.
render_ui_entity(u) ==
    /\ rev = "old"
    /\ fpc = [at |-> "render_entity", u |-> u]
    /\ \E dl \in DrawLists :
          LET s0 == IF new_window_size # None
                       THEN Ui_resize(ui[u], new_window_size[1]) ELSE ui[u]
              s1 == Ui_needs_redraw(s0)
              vb == replace_vertex_buffer(draw[u].vertices, dl)
          IN IF s1.dirty
                THEN /\ ui' = [ui EXCEPT ![u] = Ui_draw(s1)]
                     /\ draw' = [draw EXCEPT ![u] = [vertices |-> vb.vertices,
                                                     updates |-> @.updates,
                                                     commands |-> dl.vertices]]
                     /\ buffers' = vb.buffers
                     /\ next_buffer' = vb.next_buffer
                ELSE /\ ui' = [ui EXCEPT ![u] = s1]
                     /\ UNCHANGED <<draw, buffers, next_buffer>>
    /\ fpc' = IF u < NumUi THEN [at |-> "render_entity", u |-> u + 1] ELSE Idle
    /\ UNCHANGED <<rev, last_seen, frames, primary, host, stylesheets, handle, modifiers, events,
                   current_window_size, new_window_size, wrapper, task_sends, chanVars, restVars>>

\* ------------------------------------------------------ draw reconciliation

\* let padding = 256 - (size.width * 4) % 256
ROW_ALIGN == 256
BYTES_PER_PIXEL == 4
\* VertexBufferDescriptor.stride: the size of one pixel_widgets Vertex
VERTEX_SIZE == 36

\* The sizes and the offset of the textures of RenderSpec: odd ids have a
\* row of 256 bytes, even ids a row of 400 bytes.
TextureSizes == {<<64, 2>>, <<100, 2>>}
TextureSize(id) == IF id % 2 = 1 THEN <<64, 2>> ELSE <<100, 2>>
TextureOffsets == {<<3, 5>>}

\* pixel_widgets::draw::Update, its data by its length in bytes: a Texture
\* comes with all of its pixels or with none.
Updates ==
    {[kind |-> "Texture", id |-> i, size |-> TextureSize(i),
      data |-> IF full THEN BYTES_PER_PIXEL * TextureSize(i)[1] * TextureSize(i)[2] ELSE 0] :
        i \in TexIds, full \in BOOLEAN}
    \cup
    {[kind |-> "TextureSubresource", id |-> i, offset |-> o, size |-> TextureSize(i),
      data |-> BYTES_PER_PIXEL * TextureSize(i)[1] * TextureSize(i)[2]] :
        i \in TexIds, o \in TextureOffsets}

\* pixel_widgets::draw::Command; the textured draws use the first id.
DrawCommands ==
    {[kind |-> "Nop"],
     [kind |-> "Clip", scissor |-> <<10, 20, 100, 50>>],
     [kind |-> "Colored", offset |-> 0, count |-> 3],
     [kind |-> "Textured", texture |-> 1, offset |-> 3, count |-> 3]}

\* What ui.draw() may return to the render system: DrawList {updates, commands, vertices}.
\* The vertex counts of the draw lists of RenderSpec: the session draws
\* rectangles of two triangles, so the vertices come in sixes.
QUAD == 6

RenderVertices == {QUAD * n : n \in 0..MaxVerts}

RenderDrawLists == [updates : SeqsUpTo(Updates, MaxUpdates),
                    commands : SeqsUpTo(DrawCommands, MaxCommands),
                    vertices : RenderVertices]

padding(width) == ROW_ALIGN - ((width * BYTES_PER_PIXEL) % ROW_ALIGN)

\* data.chunks(n): the number of chunks of a slice of len bytes
chunks(len, n) == (len + n - 1) \div n

\* The staged bytes of a TextureSubresource: every row followed by the padding.
pad_rows(data, width) ==
    IF padding(width) > 0
       THEN data + chunks(data, width * BYTES_PER_PIXEL) * padding(width)
       ELSE data

\* An entry of ops: the call, and the update it was made for (kind "vertices"
\* for the calls that replace the vertex buffer).
Call(by, call) == [by |-> by, call |-> call]

copy_buffer_to_texture(buffer, bytes_per_row, texture, origin, size) ==
    <<"copy_buffer_to_texture",
      [buffer |-> buffer, bytes_per_row |-> bytes_per_row, texture |-> texture,
       origin |-> origin, size |-> <<size[1], size[2], 1>>]>>

\* A TextureSubresource arm that creates the texture of an id that is not
\* mapped instead of unwrapping.
TextureSubresource_creates(st, u) ==
    LET data == pad_rows(u.data, u.size[1])
        t    == IF st.textures[u.id] = 0 THEN st.next_texture + 1 ELSE st.textures[u.id]
        ops1 == Append(st.ops, Call(u, <<"create_buffer", "COPY_SRC", data>>))
    IN [st EXCEPT !.textures = [@ EXCEPT ![u.id] = t],
                  !.host_textures = @ \cup {t},
                  !.next_texture = IF st.textures[u.id] = 0 THEN t ELSE @,
                  !.ops = Append(ops1, Call(u,
                      copy_buffer_to_texture(data, u.size[1] * BYTES_PER_PIXEL + padding(u.size[1]),
                                             t, <<u.offset[1], u.offset[2], 0>>, u.size)))]

\* The arm Update::TextureSubresource on st = [textures, host_textures,
\* next_texture, ops, ok]: the rows are padded and staged, then the texture
\* of the id is looked up (unwrap), then the copy is queued.
TextureSubresource(st, u) ==
    LET data == pad_rows(u.data, u.size[1])
        ops1 == Append(st.ops, Call(u, <<"create_buffer", "COPY_SRC", data>>))
    IN IF st.textures[u.id] = 0
          THEN [st EXCEPT !.ops = ops1, !.ok = FALSE]
          ELSE [st EXCEPT !.ops = Append(ops1, Call(u,
                   copy_buffer_to_texture(data, u.size[1] * BYTES_PER_PIXEL + padding(u.size[1]),
                                          st.textures[u.id],
                                          <<u.offset[1], u.offset[2], 0>>, u.size)))]

\* The arm Update::Texture: a texture is created and inserted under the id;
\* pixel data, when there is any, is staged as it is and copied to the origin.
Texture(st, u) ==
    LET t == st.next_texture + 1
        ops1 == Append(st.ops, Call(u, <<"create_texture", t, u.size>>))
    IN [st EXCEPT !.textures = [@ EXCEPT ![u.id] = t],
                  !.host_textures = @ \cup {t},
                  !.next_texture = t,
                  !.ops = IF u.data > 0
                             THEN ops1 \o <<Call(u, <<"create_buffer", "COPY_SRC", u.data>>),
                                            Call(u, copy_buffer_to_texture(
                                                        u.data, u.size[1] * BYTES_PER_PIXEL,
                                                        t, <<0, 0, 0>>, u.size))>>
                             ELSE ops1]

\* A reconciliation that leaves the updates of the DrawList for later.
apply_updates_later(st, updates) == st

\* for update in updates { match update { ... } }: a failed unwrap ends the run.
RECURSIVE apply_updates(_, _)
apply_updates(st, updates) ==
    IF updates = <<>> \/ ~st.ok THEN st
    ELSE apply_updates(IF Head(updates).kind = "Texture"
                          THEN Texture(st, Head(updates))
                          ELSE TextureSubresource(st, Head(updates)),
                       Tail(updates))

\* node.rs: the vertex buffer is replaced on every redraw, whatever the
\* number of vertices. [vertices, buffers, next_buffer]
replace_vertex_buffer_always(old, dl) ==
    [vertices |-> Some(next_buffer + 1),
     buffers |-> (buffers \cup {next_buffer + 1}) \ Range(old),
     next_buffer |-> next_buffer + 1]

\* The calls on the render resource context that replace the vertex buffer,
\* in the order the code makes them: the new buffer is created inside the
\* argument of Option::replace, the old one removed after it.
vertex_buffer_ops(r, old, dl) ==
    (IF dl.vertices > 0 \/ r = "oldest"
        THEN <<Call([kind |-> "vertices"],
                    <<"create_buffer", "VERTEX", dl.vertices * VERTEX_SIZE, next_buffer + 1>>)>>
        ELSE <<>>)
    \o (IF old # None THEN <<Call([kind |-> "vertices"], <<"remove_buffer", old[1]>>)>> ELSE <<>>)

\* The body of `if ui.needs_redraw()` of revision r for entity u and
\* DrawList dl: [textures, host_textures, next_texture, ops, ok, vb,
\* draw_commands, draw_updates]. The revision of update.rs keeps the updates
\* for later; the render systems apply them at once.
redraw(r, u, dl) ==
    LET st0 == [textures |-> textures[u], host_textures |-> host_textures,
                next_texture |-> next_texture, ops |-> <<>>, ok |-> TRUE]
        st  == IF r = "new" THEN st0 ELSE apply_updates(st0, dl.updates)
        vb  == IF r = "oldest" THEN replace_vertex_buffer_always(vertex_buffer[u], dl)
                               ELSE replace_vertex_buffer(vertex_buffer[u], dl)
    IN IF st.ok
          THEN [textures |-> st.textures, host_textures |-> st.host_textures,
                next_texture |-> st.next_texture, ok |-> TRUE,
                ops |-> st.ops \o vertex_buffer_ops(r, vertex_buffer[u], dl),
                vb |-> vb,
                draw_commands |-> dl.commands,
                draw_updates |-> IF r = "new" THEN draw_updates[u] + Len(dl.updates)
                                              ELSE draw_updates[u]]
          ELSE [textures |-> st.textures, host_textures |-> st.host_textures,
                next_texture |-> st.next_texture, ok |-> FALSE,
                ops |-> st.ops,
                vb |-> [vertices |-> vertex_buffer[u], buffers |-> buffers,
                        next_buffer |-> next_buffer],
                draw_commands |-> draw_commands[u],
                draw_updates |-> draw_updates[u]]

\* A frame without redraw that creates the vertex buffer anew all the same.
no_redraw_rebuilds(u) ==
    [textures |-> textures[u], host_textures |-> host_textures,
     next_texture |-> next_texture, ok |-> TRUE,
     ops |-> <<Call([kind |-> "vertices"], <<"create_buffer", "VERTEX", 0, next_buffer + 1>>)>>,
     vb |-> [vertices |-> Some(next_buffer + 1),
             buffers |-> (buffers \cup {next_buffer + 1}) \ Range(vertex_buffer[u]),
             next_buffer |-> next_buffer + 1],
     draw_commands |-> draw_commands[u], draw_updates |-> draw_updates[u]]

\* The entity as a frame without redraw leaves it.
no_redraw(u) ==
    [textures |-> textures[u], host_textures |-> host_textures,
     next_texture |-> next_texture, ok |-> TRUE, ops |-> <<>>,
     vb |-> [vertices |-> vertex_buffer[u], buffers |-> buffers, next_buffer |-> next_buffer],
     draw_commands |-> draw_commands[u], draw_updates |-> draw_updates[u]]

\* The host textures an id-to-texture map holds.
Mapped(tex) == {tex[i] : i \in TexIds} \ {0}

\* textures.iter().next(): some entry of the hash map, 0 for none.
FirstTextures(tex) == IF Mapped(tex) = {} THEN {0} ELSE Mapped(tex)

Draw(c) == <<"Draw", c.offset, c.offset + c.count, 1>>

\* The bind group of a texture as t_Color and the sampler as s_Color.
SetBindGroup(texture, sampler) == <<"SetBindGroup", texture, sampler>>

\* An emitter whose Textured arm draws with whatever is bound when its id
\* is not mapped.
RECURSIVE emit_commands_lenient(_, _, _, _)
emit_commands_lenient(cmds, tex, first, acc) ==
    IF cmds = <<>> \/ ~acc.ok THEN acc
    ELSE LET c == Head(cmds)
             next ==
               CASE c.kind = "Colored" ->
                      IF acc.bind_group_set
                         THEN [acc EXCEPT !.out = Append(@, Draw(c))]
                      ELSE IF first = 0
                         THEN [acc EXCEPT !.ok = FALSE]
                         ELSE [acc EXCEPT !.out = @ \o <<SetBindGroup(first, acc.sampler), Draw(c)>>,
                                          !.bind_group_set = TRUE]
                 [] c.kind = "Textured" ->
                      IF tex[c.texture] = 0
                         THEN [acc EXCEPT !.out = Append(@, Draw(c))]
                         ELSE [acc EXCEPT !.out = @ \o <<SetBindGroup(tex[c.texture], acc.sampler),
                                                          Draw(c)>>,
                                          !.bind_group_set = TRUE]
                 [] OTHER -> acc
         IN emit_commands_lenient(Tail(cmds), tex, first, next)

\* An emitter whose Colored arm never binds a texture.
RECURSIVE emit_commands_unbound(_, _, _, _)
emit_commands_unbound(cmds, tex, first, acc) ==
    IF cmds = <<>> \/ ~acc.ok THEN acc
    ELSE LET c == Head(cmds)
             next ==
               CASE c.kind = "Colored" -> [acc EXCEPT !.out = Append(@, Draw(c))]
                 [] c.kind = "Textured" ->
                      IF tex[c.texture] = 0
                         THEN [acc EXCEPT !.ok = FALSE]
                         ELSE [acc EXCEPT !.out = @ \o <<SetBindGroup(tex[c.texture], acc.sampler),
                                                          Draw(c)>>,
                                          !.bind_group_set = TRUE]
                 [] OTHER -> acc
         IN emit_commands_unbound(Tail(cmds), tex, first, next)

\* for command in draw_commands.iter() { match command { ... } } on
\* acc = [out, bind_group_set, ok, sampler]: Nop and Clip emit nothing, Colored binds
\* the first texture when no bind group was set before, Textured binds the
\* texture of its id; both unwrap their texture.
RECURSIVE emit_commands(_, _, _, _)
emit_commands(cmds, tex, first, acc) ==
    IF cmds = <<>> \/ ~acc.ok THEN acc
    ELSE LET c == Head(cmds)
             next ==
               CASE c.kind = "Colored" ->
                      IF acc.bind_group_set
                         THEN [acc EXCEPT !.out = Append(@, Draw(c))]
                      ELSE IF first = 0
                         THEN [acc EXCEPT !.ok = FALSE]
                         ELSE [acc EXCEPT !.out = @ \o <<SetBindGroup(first, acc.sampler), Draw(c)>>,
                                          !.bind_group_set = TRUE]
                 [] c.kind = "Textured" ->
                      IF tex[c.texture] = 0
                         THEN [acc EXCEPT !.ok = FALSE]
                         ELSE [acc EXCEPT !.out = @ \o <<SetBindGroup(tex[c.texture], acc.sampler),
                                                          Draw(c)>>,
                                          !.bind_group_set = TRUE]
                 [] OTHER -> acc
         IN emit_commands(Tail(cmds), tex, first, next)

\* An emitter that sets the pipeline for every entity.
emit_entity_sets_pipeline(vb, cmds, tex, first, acc) ==
    IF vb = None THEN acc
    ELSE emit_commands(cmds, tex, first,
                       [acc EXCEPT !.out = @ \o <<<<"SetPipeline">>, <<"SetVertexBuffer", vb[1]>>>>])

\* pixel_widgets_node.rs: `if vertex_buffer.is_some()` guards the entity's
\* whole segment.
emit_entity(vb, cmds, tex, first, acc) ==
    IF vb = None THEN acc
    ELSE emit_commands(cmds, tex, first,
                       [acc EXCEPT !.out = Append(@, <<"SetVertexBuffer", vb[1]>>)])

\* node.rs: the pipeline and the unwrapped vertex buffer are set, then the
\* commands are emitted with bind groups of the entity's own.
emit_entity_unwrap(vb, cmds, tex, first, sampler) ==
    IF vb = None THEN [out |-> <<<<"SetPipeline">>>>, bind_group_set |-> FALSE, ok |-> FALSE,
                       sampler |-> sampler]
    ELSE emit_commands(cmds, tex, first,
                       [out |-> <<<<"SetPipeline">>, <<"SetVertexBuffer", vb[1]>>>>,
                        bind_group_set |-> FALSE, ok |-> TRUE, sampler |-> sampler])

\* The frame variables the render systems of RenderSpec leave alone.
frameRest == <<rev, primary, host, stylesheets, handle, modifiers, events,
               current_window_size, wrapper, draw, task_sends, last_seen>>

Panicked(u) == [at |-> "panicked", u |-> u]

\* Between two frames of RenderSpec the sessions of some entities change; the
\* histories of the entity steps start anew.
render_frame ==
    /\ fpc = Idle
    /\ (frames + 1) * entities <= MaxRenderFrames
    /\ frames' = frames + 1
    /\ \E D \in SUBSET (1..entities) :
          ui' = [u \in UIs |-> [ui[u] EXCEPT !.dirty = @ \/ u \in D, !.calls = <<>>]]
    /\ ops' = <<>>
    /\ last_draw' = None
    /\ fpc' = IF rev = "old" THEN [at |-> "run", u |-> 0] ELSE [at |-> "reconcile", u |-> 1]
    /\ UNCHANGED <<frameRest, new_window_size, buffers, next_buffer, textures, vertex_buffer,
                   draw_commands, draw_updates, host_textures, next_texture, sampler_id,
                   samplers, pipelines, bind_group_set, render_commands, command_buffer,
                   entities, keyVars, pluginVars, nodeVars, hostVars, chanVars>>

\* A render_ui that creates its sampler anew in every run.
render_ui_run_new_sampler ==
    /\ rev = "old"
    /\ fpc = [at |-> "run", u |-> 0]
    /\ new_window_size' = IF current_window_size # Some(primary) THEN Some(primary) ELSE None
    /\ command_buffer' = <<>>
    /\ sampler_id' = Some(samplers + 1)
    /\ samplers' = samplers + 1
    /\ pipelines' = IF pipelines = 0 THEN 1 ELSE pipelines
    /\ render_commands' = <<<<"SetPipeline">>>>
    /\ bind_group_set' = FALSE
    /\ fpc' = [at |-> "reconcile", u |-> 1]
    /\ UNCHANGED <<frameRest, frames, ui, buffers, next_buffer, textures, vertex_buffer,
                   draw_commands, draw_updates, host_textures, next_texture, ops, last_draw,
                   entities, keyVars, pluginVars, nodeVars, hostVars, chanVars>>

\* render_ui (pixel_widgets_node.rs) up to its entity loop: the window size,
\* the emptied command buffer, the sampler, the specialized pipeline, and
\* the first render command.
render_ui_run ==
    /\ rev = "old"
    /\ fpc = [at |-> "run", u |-> 0]
    /\ new_window_size' = IF current_window_size # Some(primary) THEN Some(primary) ELSE None
    /\ command_buffer' = <<>>
    /\ IF sampler_id = None
          THEN sampler_id' = Some(samplers + 1) /\ samplers' = samplers + 1
          ELSE UNCHANGED <<sampler_id, samplers>>
    /\ pipelines' = IF pipelines = 0 THEN 1 ELSE pipelines
    /\ render_commands' = <<<<"SetPipeline">>>>
    /\ bind_group_set' = FALSE
    /\ fpc' = [at |-> "reconcile", u |-> 1]
    /\ UNCHANGED <<frameRest, frames, ui, buffers, next_buffer, textures, vertex_buffer,
                   draw_commands, draw_updates, host_textures, next_texture, ops, last_draw,
                   entities, keyVars, pluginVars, nodeVars, hostVars, chanVars>>

\* render_ui (pixel_widgets_node.rs), the loop body for entity u: resize,
\* redraw and reconcile when the session needs it, then emit the entity's
\* render commands.
render_ui_reconcile(u) ==
    /\ rev = "old"
    /\ fpc = [at |-> "reconcile", u |-> u]
    /\ LET s0 == IF new_window_size # None
                    THEN Ui_resize(ui[u], new_window_size[1]) ELSE ui[u]
           s1 == Ui_needs_redraw(s0)
       IN \E d \in (IF s1.dirty THEN {Some(dl) : dl \in RenderDrawLists} ELSE {None}) :
             LET rec == IF d = None THEN no_redraw(u) ELSE redraw("old", u, d[1]) IN
             \E first \in FirstTextures(rec.textures) :
                LET em == IF rec.ok
                             THEN emit_entity(rec.vb.vertices, rec.draw_commands, rec.textures, first,
                                              [out |-> render_commands,
                                               bind_group_set |-> bind_group_set, ok |-> TRUE,
                                               sampler |-> sampler_id[1]])
                             ELSE [out |-> render_commands,
                                   bind_group_set |-> bind_group_set, ok |-> FALSE]
                IN /\ ui' = [ui EXCEPT ![u] = IF s1.dirty THEN Ui_draw(s1) ELSE s1]
                   /\ last_draw' = d
                   /\ textures' = [textures EXCEPT ![u] = rec.textures]
                   /\ host_textures' = rec.host_textures
                   /\ next_texture' = rec.next_texture
                   /\ vertex_buffer' = [vertex_buffer EXCEPT ![u] = rec.vb.vertices]
                   /\ buffers' = rec.vb.buffers
                   /\ next_buffer' = rec.vb.next_buffer
                   /\ draw_commands' = [draw_commands EXCEPT ![u] = rec.draw_commands]
                   /\ ops' = rec.ops
                   /\ render_commands' = em.out
                   /\ bind_group_set' = em.bind_group_set
                   /\ fpc' = IF ~em.ok THEN Panicked(u)
                             ELSE IF u < entities THEN [at |-> "reconcile", u |-> u + 1]
                             ELSE [at |-> "store", u |-> 0]
    /\ UNCHANGED <<frameRest, frames, new_window_size, draw_updates, sampler_id, samplers,
                   pipelines, command_buffer, entities, keyVars, pluginVars, nodeVars, hostVars, chanVars>>

\* render_ui (pixel_widgets_node.rs), its last statement: the commands are
\* handed to the graph node.
render_ui_store ==
    /\ rev = "old"
    /\ fpc = [at |-> "store", u |-> 0]
    /\ command_buffer' = render_commands
    /\ handed' = TRUE
    /\ fpc' = Idle
    /\ UNCHANGED <<frameRest, frames, new_window_size, ui, buffers, next_buffer, textures,
                   vertex_buffer, draw_commands, draw_updates, host_textures, next_texture,
                   sampler_id, samplers, pipelines, bind_group_set, render_commands, ops,
                   last_draw, entities, keyVars, pluginVars, pass, node_updates, hostVars,
                   chanVars>>

\* render_ui (node.rs), the system run for entity u: redraw and reconcile
\* when the session needs it, the sampler, the pipeline, then the entity's
\* render commands.
node_render_ui(u) ==
    /\ rev = "oldest"
    /\ fpc = [at |-> "reconcile", u |-> u]
    /\ LET s1 == Ui_needs_redraw(ui[u])
       IN \E d \in (IF s1.dirty THEN {Some(dl) : dl \in RenderDrawLists} ELSE {None}) :
             LET rec == IF d = None THEN no_redraw(u) ELSE redraw("oldest", u, d[1]) IN
             \E first \in FirstTextures(rec.textures) :
                LET em == IF rec.ok
                             THEN emit_entity_unwrap(rec.vb.vertices, rec.draw_commands,
                                                     rec.textures, first,
                                                     IF sampler_id = None THEN samplers + 1
                                                                          ELSE sampler_id[1])
                             ELSE [out |-> render_commands, bind_group_set |-> FALSE, ok |-> FALSE]
                IN /\ ui' = [ui EXCEPT ![u] = IF s1.dirty THEN Ui_draw(s1) ELSE s1]
                   /\ last_draw' = d
                   /\ textures' = [textures EXCEPT ![u] = rec.textures]
                   /\ host_textures' = rec.host_textures
                   /\ next_texture' = rec.next_texture
                   /\ vertex_buffer' = [vertex_buffer EXCEPT ![u] = rec.vb.vertices]
                   /\ buffers' = rec.vb.buffers
                   /\ next_buffer' = rec.vb.next_buffer
                   /\ draw_commands' = [draw_commands EXCEPT ![u] = rec.draw_commands]
                   /\ ops' = rec.ops
                   /\ IF rec.ok /\ sampler_id = None
                         THEN sampler_id' = Some(samplers + 1) /\ samplers' = samplers + 1
                         ELSE UNCHANGED <<sampler_id, samplers>>
                   /\ pipelines' = IF rec.ok /\ pipelines = 0 THEN 1 ELSE pipelines
                   /\ render_commands' = em.out
                   /\ fpc' = IF ~em.ok THEN Panicked(u)
                             ELSE IF u < entities THEN [at |-> "reconcile", u |-> u + 1]
                             ELSE Idle
    /\ UNCHANGED <<frameRest, frames, new_window_size, draw_updates, bind_group_set,
                   command_buffer, entities, keyVars, pluginVars, nodeVars, hostVars, chanVars>>

\* UpdateUi::run (update.rs), `if wrapper.ui.needs_redraw()` for entity u:
\* the updates are kept in UiDraw, the commands stored, the vertex buffer
\* replaced.
UpdateUi_redraw(u) ==
    /\ rev = "new"
    /\ fpc = [at |-> "reconcile", u |-> u]
    /\ LET s1 == Ui_needs_redraw(ui[u])
       IN \E d \in (IF s1.dirty THEN {Some(dl) : dl \in RenderDrawLists} ELSE {None}) :
             LET rec == IF d = None THEN no_redraw(u) ELSE redraw("new", u, d[1])
             IN /\ ui' = [ui EXCEPT ![u] = IF s1.dirty THEN Ui_draw(s1) ELSE s1]
                /\ last_draw' = d
                /\ vertex_buffer' = [vertex_buffer EXCEPT ![u] = rec.vb.vertices]
                /\ buffers' = rec.vb.buffers
                /\ next_buffer' = rec.vb.next_buffer
                /\ draw_commands' = [draw_commands EXCEPT ![u] = rec.draw_commands]
                /\ draw_updates' = [draw_updates EXCEPT ![u] = rec.draw_updates]
                /\ ops' = rec.ops
    /\ fpc' = IF u < entities THEN [at |-> "reconcile", u |-> u + 1] ELSE Idle
    /\ UNCHANGED <<frameRest, frames, new_window_size, textures, host_textures, next_texture,
                   sampler_id, samplers, pipelines, bind_group_set, render_commands,
                   command_buffer, entities, keyVars, pluginVars, nodeVars, hostVars, chanVars>>

\* ------------------------------------------------------------ keyboard loop

\* KeyboardInput { key_code: None, .. }
Missing == "(none)"

\* The key codes of KeySpec: a letter, a digit, the modifier keys of both
\* sides, a key code translate_key_code does not know, and a missing one.
KeyCodes == {"A", "Key1", "LShift", "RShift", "LControl", "RAlt", "LWin", "RWin",
             "F1", Missing}

KeyEvents == [key_code : KeyCodes, state : {"Pressed", "Released"}]

\* The key codes that are down after the events evs, from those down before.
RECURSIVE Held(_, _)
Held(held, evs) ==
    IF evs = <<>> THEN held
    ELSE Held(IF Head(evs).state = "Pressed" THEN held \cup {Head(evs).key_code}
                                            ELSE held \ {Head(evs).key_code},
              Tail(evs))

\* The keyboard loop of one frame (event.rs 52-88, update.rs 159-200) on the
\* keyboard events the host delivered since the last frame.
keyboard_frame ==
    /\ key_frames < MaxKeyFrames
    /\ \E batch \in SeqsUpTo(KeyEvents, MaxKeys) :
          LET acc == keyboard_events(key_rev, [mods |-> key_mods, out |-> <<>>], batch)
          IN /\ key_in' = batch
             /\ key_before' = key_mods
             /\ key_held' = Held(key_held, key_in)
             /\ key_mods' = acc.mods
             /\ key_out' = acc.out
    /\ key_frames' = key_frames + 1
    /\ UNCHANGED <<key_rev, chanVars, frameVars, renderVars, pluginVars, nodeVars, hostVars>>

\* ----------------------------------------------------------- specifications

\* The frame variables before the first frame, whatever the revision.
FrameFresh ==
    /\ fpc = Idle
    /\ frames = 0
    /\ primary = <<1280, 720>>
    /\ host = EmptyBatch
    /\ stylesheets = 0
    /\ handle = [u \in UIs |-> u % 2 = 1]
    /\ modifiers = [ctrl |-> FALSE, alt |-> FALSE, shift |-> FALSE, logo |-> FALSE]
    /\ events = <<>>
    /\ current_window_size = None
    /\ new_window_size = None
    /\ wrapper = [u \in UIs |-> [window |-> None, receiver |-> <<>>]]
    /\ ui = [u \in UIs |-> Ui_new]
    /\ draw = [u \in UIs |-> [vertices |-> None, updates |-> 0, commands |-> 0]]
    /\ buffers = {}
    /\ next_buffer = 0
    /\ task_sends = 0
    /\ last_seen = primary

FrameStart == rev \in {"old", "new"} /\ FrameFresh

\* The components and the render resources before the first frame.
RenderFresh ==
    /\ textures = [u \in UIs |-> [i \in TexIds |-> 0]]
    /\ vertex_buffer = [u \in UIs |-> None]
    /\ draw_commands = [u \in UIs |-> <<>>]
    /\ draw_updates = [u \in UIs |-> 0]
    /\ host_textures = {}
    /\ next_texture = 0
    /\ sampler_id = None
    /\ samplers = 0
    /\ pipelines = 0
    /\ bind_group_set = FALSE
    /\ render_commands = <<>>
    /\ ops = <<>>
    /\ last_draw = None

\* UiNode::new: the shared command buffer is empty.
RenderStart == RenderFresh /\ command_buffer = <<>>

\* The graph node before its first update.
NodeStart == pass = [calls |-> <<>>, ok |-> TRUE] /\ node_updates = 0 /\ handed = FALSE

\* No input event produced yet.
HostStart == produced = <<>>

\* State::default of both keyboard loops.
KeyStart ==
    /\ key_mods = [ctrl |-> FALSE, alt |-> FALSE, shift |-> FALSE, logo |-> FALSE]
    /\ key_in = <<>>
    /\ key_before = key_mods
    /\ key_out = <<>>
    /\ key_held = {}
    /\ key_frames = 0

\* ------------------------------------------------------------------ plugin

\* Calls on the loader in one behaviour of LoaderSpec.
MaxLoaderCalls == 2

\* Builds of the plugin in one behaviour of PluginSpec.
MaxRegistrations == 4

\* The model types M the app instantiates UiPlugin<M> with.
NumModels == 2

Models == 1..NumModels

\* Msaa { samples }: off, or four samples.
MsaaSamples == {1, 4}

\* plugin.rs: const PIXEL_WIDGETS
PIXEL_WIDGETS == "pixel_widgets"

\* pipeline.rs: UI_PIPELINE_HANDLE, a weak handle of a fixed id.
UI_PIPELINE_HANDLE == "1132409877698723298"

\* The nodes of the host's base render graph the plugin connects to.
BaseNodes == {"PRIMARY_SWAP_CHAIN", "MAIN_DEPTH_TEXTURE", "MAIN_SAMPLED_COLOR_ATTACHMENT",
              "MAIN_PASS"}

\* update_ui::<M>.system()
update_ui_system(m) == <<"update_ui", m>>

\* UiPlugin::build: `app.add_system(update_ui::<M>.system())`, before and
\* outside the presence check of the graph node.
add_update_system(systems, m) == Append(systems, update_ui_system(m))

\* UiPlugin::build: the slot edges added with the node, by the sample count.
ui_slot_edges(samples) ==
    {<<"PRIMARY_SWAP_CHAIN", "OUT_TEXTURE", PIXEL_WIDGETS,
       IF samples > 1 THEN "color_resolve_target" ELSE "color_attachment">>,
     <<"MAIN_DEPTH_TEXTURE", "OUT_TEXTURE", PIXEL_WIDGETS, "depth">>}
    \cup (IF samples > 1
             THEN {<<"MAIN_SAMPLED_COLOR_ATTACHMENT", "OUT_TEXTURE", PIXEL_WIDGETS,
                     "color_attachment">>}
             ELSE {})

\* UiPlugin::build for the model type m: the update system, the stylesheet
\* asset and its loader, and, when the graph has no node of the plugin's
\* name, the node, its edges and the pipeline asset under the fixed handle.
UiPlugin_build(m) ==
    /\ Len(registered) < MaxRegistrations
    /\ registered' = Append(registered, m)
    /\ LET absent == PIXEL_WIDGETS \notin graph_nodes IN
       /\ app_systems' = add_update_system(app_systems, m)
       /\ app_assets' = app_assets \cup {"Stylesheet"}
       /\ app_loaders' = app_loaders \cup {"StylesheetLoader"}
       /\ IF absent
             THEN /\ graph_nodes' = graph_nodes \cup {PIXEL_WIDGETS}
                  /\ pass_samples' = Some(msaa)
                  /\ slot_edges' = slot_edges \cup ui_slot_edges(msaa)
                  /\ node_edges' = node_edges \cup {<<"MAIN_PASS", PIXEL_WIDGETS>>}
                  /\ pipeline_builds' = pipeline_builds + 1
                  /\ pipeline_assets' = pipeline_assets \cup {UI_PIPELINE_HANDLE}
             ELSE UNCHANGED <<graph_nodes, pass_samples, slot_edges, node_edges,
                              pipeline_builds, pipeline_assets>>
    /\ UNCHANGED <<msaa, loader_calls, chanVars, frameVars, renderVars, keyVars, nodeVars, hostVars>>

\* The app replaces its Msaa resource between two plugins.
insert_msaa(samples) ==
    /\ Len(registered) < MaxRegistrations
    /\ samples # msaa
    /\ msaa' = samples
    /\ UNCHANGED <<app_systems, app_assets, app_loaders, graph_nodes, pass_samples, slot_edges,
                   node_edges, pipeline_assets, pipeline_builds, registered, loader_calls,
                   chanVars, frameVars, renderVars, keyVars, nodeVars, hostVars>>

\* The paths a session asks its loader for.
LoaderPaths == {"style.pwss", "atlas.png"}

\* unimplemented!(message): the call panics with the message.
unimplemented(message) == [kind |-> "panic", message |-> message]

\* A loader that answers a load with a future of the file's bytes.
DisabledLoader_load_bytes(path) == [kind |-> "ready", bytes |-> path]

\* DisabledLoader::load
DisabledLoader_load(path) ==
    unimplemented("please load stylesheets using the bevy asset system")

\* DisabledLoader::wait
DisabledLoader_wait(path) ==
    unimplemented("please load stylesheets using the bevy asset system")

\* A session calls its loader between two frames; a panic unwinds through
\* the caller.
loader_call(method, path) ==
    /\ fpc = Idle
    /\ LET out == IF method = "load" THEN DisabledLoader_load(path)
                                     ELSE DisabledLoader_wait(path)
       IN /\ loader_calls' = Append(loader_calls, [method |-> method, path |-> path, out |-> out])
          /\ fpc' = IF out.kind = "panic" THEN Panicked(0) ELSE fpc
    /\ Len(loader_calls) < MaxLoaderCalls
    /\ UNCHANGED <<rev, frames, primary, host, stylesheets, handle, modifiers, events,
                   current_window_size, new_window_size, wrapper, ui, draw, buffers,
                   next_buffer, task_sends, last_seen, renderVars, keyVars, msaa, app_systems,
                   app_assets, app_loaders, graph_nodes, pass_samples, slot_edges, node_edges,
                   pipeline_assets, pipeline_builds, registered, nodeVars, hostVars, chanVars>>

\* An app with the host's base render graph and no plugin of this crate.
AppNew ==
    /\ msaa \in MsaaSamples
    /\ app_systems = <<>>
    /\ app_assets = {}
    /\ app_loaders = {}
    /\ graph_nodes = BaseNodes
    /\ pass_samples = None
    /\ slot_edges = {}
    /\ node_edges = {}
    /\ pipeline_assets = {}
    /\ pipeline_builds = 0
    /\ registered = <<>>
    /\ loader_calls = <<>>

\* The app side at rest, for the other specifications.
AppAtRest == AppNew /\ msaa = 1

\* The render and keyboard sides at rest, for the other specifications.
RestAtRest == RenderStart /\ entities = 1 /\ KeyStart /\ key_rev = "new" /\ AppAtRest /\ NodeStart /\ HostStart

\* The frame side at rest, for the specifications of the channel alone.
FrameAtRest == FrameStart /\ rev = "new"

ChanInit == UiNew /\ observe = TRUE /\ FrameAtRest /\ RestAtRest

ChanNext ==
    \/ \E p \in Producers : send_event(p)
    \/ \E p \in Producers : send_event_resume(p)
    \/ \E p \in Producers : drop_sender(p)
    \/ process_commands
    \/ process_commands_next
    \/ process_commands_end
    \/ drop_receiver

ChanSpec == ChanInit /\ [][ChanNext]_vars

LiveInit == UiNew /\ observe = FALSE /\ FrameAtRest /\ RestAtRest

\* The UI thread is scheduled; nothing is assumed of the producers.
LiveSpec == LiveInit /\ [][ChanNext]_vars /\ WF_vars(UiThread)

FrameInit == FrameStart /\ UiNew /\ observe = TRUE /\ RestAtRest

FrameNext ==
    \/ host_frame
    \/ \E u \in UIs : task_send(u)
    \/ UpdateUi_collect
    \/ \E u \in UIs : UpdateUi_entity(u)
    \/ \E u \in UIs : update_commands_next(u)
    \/ \E u \in UIs : UpdateUi_finish(u)
    \/ update_ui_collect
    \/ \E u \in UIs : update_ui_next(u)
    \/ \E u \in UIs : update_ui_finish(u)
    \/ render_ui_begin
    \/ \E u \in UIs : render_ui_entity(u)

FrameSpec == FrameInit /\ [][FrameNext]_vars

\* render_ui (pixel_widgets_node.rs), the loop body for entity u when the
\* render resource context cannot allocate: create_texture and
\* create_buffer_with_data return a handle and no Result, and the loop has
\* no branch for a failure, so the failing call unwinds through render_ui.
\* (A context that hands out a handle all the same is the step
\* render_ui_reconcile.) The failing call is the create_texture of a first
\* Texture update, or the create_buffer_with_data of the vertices after
\* the updates were applied; it is recorded with the handle 0.
render_ui_allocation_fails(u) ==
    /\ rev = "old"
    /\ fpc = [at |-> "reconcile", u |-> u]
    /\ LET s0 == IF new_window_size # None
                    THEN Ui_resize(ui[u], new_window_size[1]) ELSE ui[u]
           s1 == Ui_needs_redraw(s0)
       IN /\ s1.dirty
          /\ \E dl \in RenderDrawLists, at \in {"create_texture", "create_buffer_with_data"} :
                LET st0 == [textures |-> textures[u], host_textures |-> host_textures,
                            next_texture |-> next_texture, ops |-> <<>>, ok |-> TRUE]
                    st == IF at = "create_texture" THEN st0 ELSE apply_updates(st0, dl.updates)
                IN /\ IF at = "create_texture"
                         THEN dl.updates # <<>> /\ Head(dl.updates).kind = "Texture"
                         ELSE dl.vertices > 0 /\ st.ok
                   /\ ui' = [ui EXCEPT ![u] = Ui_draw(s1)]
                   /\ last_draw' = Some(dl)
                   /\ textures' = [textures EXCEPT ![u] = st.textures]
                   /\ host_textures' = st.host_textures
                   /\ next_texture' = st.next_texture
                   /\ ops' = Append(st.ops,
                                    IF at = "create_texture"
                                       THEN Call(Head(dl.updates),
                                                 <<"create_texture", 0, Head(dl.updates).size>>)
                                       ELSE Call([kind |-> "vertices"],
                                                 <<"create_buffer", "VERTEX",
                                                   dl.vertices * VERTEX_SIZE, 0>>))
    /\ fpc' = Panicked(u)
    /\ UNCHANGED <<frameRest, frames, new_window_size, buffers, next_buffer, vertex_buffer,
                   draw_commands, draw_updates, sampler_id, samplers, pipelines,
                   bind_group_set, render_commands, command_buffer, entities, keyVars,
                   pluginVars, nodeVars, hostVars, chanVars>>

RenderInit ==
    /\ rev \in {"oldest", "old", "new"}
    /\ FrameFresh /\ UiNew /\ observe = TRUE
    /\ RenderStart /\ entities \in RenderUIs /\ KeyStart /\ key_rev = "new" /\ AppAtRest
    /\ NodeStart /\ HostStart

RenderNext ==
    \/ render_frame
    \/ render_ui_run
    \/ \E u \in RenderUIs : render_ui_reconcile(u)
    \/ render_ui_store
    \/ \E u \in RenderUIs : node_render_ui(u)
    \/ \E u \in RenderUIs : UpdateUi_redraw(u)

RenderSpec == RenderInit /\ [][RenderNext]_vars

\* ------------------------------------------------------------- graph node

\* Commands in a buffer the node is handed in NodeSpec.
MaxNodeCommands == 5

\* Updates of the node in one behaviour.
MaxNodeUpdates == 2

\* The layout of the specialized UI pipeline: one bind group (t_Color and
\* s_Color) and one vertex buffer descriptor.
UiLayout == [bind_groups |-> 1, vertex_buffers |-> 1]

\* RenderCommand: what render_ui emits, and the two commands for indexed
\* draws the node handles as well. Slot and bind group index are 0.
NodeCommands ==
    {<<"SetPipeline">>, <<"SetVertexBuffer", 1>>, SetBindGroup(1, 1), <<"Draw", 0, 3, 1>>,
     <<"SetIndexBuffer", 2>>, <<"DrawIndexed", 0, 3, 1>>}

\* DrawState::default()
DrawState_default ==
    [pipeline |-> None, bind_groups |-> <<>>, vertex_buffers |-> <<>>, index_buffer |-> None]

\* A set_pipeline that keeps the slots of the pipeline before.
DrawState_set_pipeline_keeps(ds, layout) ==
    [ds EXCEPT !.pipeline = Some(UI_PIPELINE_HANDLE),
               !.bind_groups = [i \in 1..layout.bind_groups |->
                                   IF i <= Len(ds.bind_groups) THEN ds.bind_groups[i] ELSE None],
               !.vertex_buffers = [i \in 1..layout.vertex_buffers |->
                                      IF i <= Len(ds.vertex_buffers) THEN ds.vertex_buffers[i]
                                                                     ELSE None]]

\* DrawState::set_pipeline: the slots are cleared and resized to the layout.
DrawState_set_pipeline(ds, layout) ==
    [pipeline |-> Some(UI_PIPELINE_HANDLE),
     bind_groups |-> [i \in 1..layout.bind_groups |-> None],
     vertex_buffers |-> [i \in 1..layout.vertex_buffers |-> None],
     index_buffer |-> None]

\* A check that looks at the vertex buffers alone.
DrawState_can_draw_buffers(ds) ==
    \A i \in 1..Len(ds.vertex_buffers) : ds.vertex_buffers[i] # None

\* DrawState::can_draw
DrawState_can_draw(ds) ==
    /\ \A i \in 1..Len(ds.bind_groups) : ds.bind_groups[i] # None
    /\ \A i \in 1..Len(ds.vertex_buffers) : ds.vertex_buffers[i] # None

\* DrawState::can_draw_indexed
DrawState_can_draw_indexed(ds) == DrawState_can_draw(ds) /\ ds.index_buffer # None

\* A call on the pass, with the position of the command it came from.
PassCall(call, at) == [call |-> call, at |-> at]

\* UiNode::update, the match on the command at position i of cmds, on
\* acc = [ds, calls, ok]. Indexing an empty slot vector and unwrapping an
\* absent pipeline panic.
node_command(cmds, i, acc) ==
    LET c == cmds[i]
        called == [acc EXCEPT !.calls = Append(@, PassCall(c, i))]
    IN CASE c[1] = "SetPipeline" ->
              [called EXCEPT !.ds = DrawState_set_pipeline(acc.ds, UiLayout)]
         [] c[1] = "SetVertexBuffer" ->
              IF Len(acc.ds.vertex_buffers) < 1
                 THEN [called EXCEPT !.ok = FALSE]
                 ELSE [called EXCEPT !.ds.vertex_buffers[1] = Some(c[2])]
         [] c[1] = "SetIndexBuffer" ->
              [called EXCEPT !.ds.index_buffer = Some(c[2])]
         [] c[1] = "SetBindGroup" ->
              IF acc.ds.pipeline = None
                 THEN [acc EXCEPT !.ok = FALSE]
                 ELSE [called EXCEPT !.ds.bind_groups[1] = Some(<<c[2], c[3]>>)]
         [] c[1] = "DrawIndexed" ->
              IF DrawState_can_draw_indexed(acc.ds) THEN called ELSE acc
         [] c[1] = "Draw" ->
              IF DrawState_can_draw(acc.ds) THEN called ELSE acc

\* for command in command_buffer.drain(..) inside begin_pass
RECURSIVE node_commands(_, _, _)
node_commands(cmds, i, acc) ==
    IF i > Len(cmds) \/ ~acc.ok THEN acc
    ELSE node_commands(cmds, i + 1, node_command(cmds, i, acc))

\* An iteration that leaves the commands in the buffer.
drain_keeps(buffer) == [items |-> buffer, rest |-> buffer]

\* Vec::drain(..): the items are moved out, the vector is left empty (also
\* when the loop unwinds).
drain(buffer) == [items |-> buffer, rest |-> <<>>]

\* UiNode::update: under the lock of the shared buffer the commands are
\* drained and executed on a new pass with a fresh DrawState.
UiNode_update ==
    /\ fpc.at # "panicked"
    /\ node_updates < MaxNodeUpdates
    /\ node_updates' = node_updates + 1
    /\ handed' = FALSE
    /\ LET d == drain(command_buffer)
           r == node_commands(d.items, 1, [ds |-> DrawState_default, calls |-> <<>>, ok |-> TRUE])
       IN /\ pass' = [calls |-> r.calls, ok |-> r.ok]
          /\ command_buffer' = d.rest
          /\ fpc' = IF r.ok THEN fpc ELSE Panicked(0)
    /\ UNCHANGED <<frameRest, frames, new_window_size, ui, buffers, next_buffer, textures,
                   vertex_buffer, draw_commands, draw_updates, host_textures, next_texture,
                   sampler_id, samplers, pipelines, bind_group_set, render_commands, ops,
                   last_draw, entities, keyVars, pluginVars, hostVars, chanVars>>

\* The node alone, handed any list of render commands.
NodeInit ==
    /\ FrameAtRest /\ UiNew /\ observe = TRUE
    /\ RenderFresh /\ command_buffer \in SeqsUpTo(NodeCommands, MaxNodeCommands)
    /\ entities = 1 /\ KeyStart /\ key_rev = "new" /\ AppAtRest /\ NodeStart /\ HostStart

NodeNext == UiNode_update

NodeSpec == NodeInit /\ [][NodeNext]_vars

\* The render system of pixel_widgets_node.rs with one entity and the node,
\* which take the lock of the shared buffer in any order.
PassInit == RenderInit /\ rev = "old" /\ entities = 1

PassNext ==
    \/ render_frame
    \/ render_ui_run
    \/ \E u \in RenderUIs : render_ui_reconcile(u)
    \/ render_ui_store
    \/ UiNode_update

PassSpec == PassInit /\ [][PassNext]_vars

\* The render system of pixel_widgets_node.rs on a render resource context
\* that may run out of memory.
AllocInit == RenderInit /\ rev = "old"

AllocNext ==
    \/ render_frame
    \/ render_ui_run
    \/ \E u \in RenderUIs : render_ui_reconcile(u)
    \/ \E u \in RenderUIs : render_ui_allocation_fails(u)
    \/ render_ui_store

AllocSpec == AllocInit /\ [][AllocNext]_vars

KeyInit ==
    /\ key_rev \in {"old", "new"}
    /\ KeyStart
    /\ FrameAtRest /\ UiNew /\ observe = TRUE /\ RenderStart /\ entities = 1 /\ AppAtRest
    /\ NodeStart /\ HostStart

KeyNext == keyboard_frame

KeySpec == KeyInit /\ [][KeyNext]_vars

InputNext ==
    \/ input_frame
    \/ UpdateUi_collect
    \/ \E u \in UIs : UpdateUi_entity(u)
    \/ \E u \in UIs : UpdateUi_finish(u)
    \/ update_ui_collect
    \/ \E u \in UIs : update_ui_finish(u)
    \/ render_ui_begin
    \/ \E u \in UIs : render_ui_entity(u)

InputSpec == FrameInit /\ [][InputNext]_vars

\* The frames of InputSpec with the host's order of production recorded.
OrderNext ==
    \/ ordered_frame
    \/ UpdateUi_collect
    \/ \E u \in UIs : UpdateUi_entity(u)
    \/ \E u \in UIs : UpdateUi_finish(u)
    \/ update_ui_collect
    \/ \E u \in UIs : update_ui_finish(u)
    \/ render_ui_begin
    \/ \E u \in UIs : render_ui_entity(u)

OrderSpec == FrameInit /\ [][OrderNext]_vars

\* The frames of InputSpec with tasks that send commands to the entities.
FeedNext ==
    \/ InputNext
    \/ \E u \in UIs : task_send(u)
    \/ \E u \in UIs : update_commands_next(u)
    \/ \E u \in UIs : update_ui_next(u)

FeedSpec == FrameInit /\ [][FeedNext]_vars

LoaderNext ==
    \/ InputNext
    \/ \E method \in {"load", "wait"}, path \in LoaderPaths : loader_call(method, path)

LoaderSpec == FrameInit /\ [][LoaderNext]_vars

PluginInit ==
    /\ AppNew
    /\ FrameAtRest /\ UiNew /\ observe = TRUE
    /\ RenderStart /\ entities = 1 /\ KeyStart /\ key_rev = "new" /\ NodeStart /\ HostStart

PluginNext ==
    \/ \E m \in Models : UiPlugin_build(m)
    \/ \E samples \in MsaaSamples : insert_msaa(samples)

PluginSpec == PluginInit /\ [][PluginNext]_vars

\* ------------------------------------------------------------------- claims

IsPrefix(a, b) == Len(a) <= Len(b) /\ a = SubSeq(b, 1, Len(a))

AllSendersDropped == \A p \in Producers : senders[p].pc = "dropped"

\* C1: the commands given to the model are, in order, a prefix of the
\* commands sent; while the session lives, the commands applied followed by
\* the commands still queued are exactly the commands sent, each once, so a
\* drained channel means as many applied as sent.
C1_FifoExactlyOnce ==
    /\ IsPrefix(model, sent)
    /\ Cardinality(Range(sent)) = Len(sent)
    /\ receiver => model \o channel = sent
    /\ (receiver /\ channel = <<>>) => Len(model) = Len(sent)

\* Every producer has sent, and the drain has applied all of it.
C1_Witness ==
    /\ receiver /\ ui_pc = "idle" /\ channel = <<>>
    /\ Len(model) >= NumProducers + 1
    /\ \A p \in Producers : senders[p].result = "ok"

\* C3: a drain that has begun ends: the UI thread leaves update_commands.
C3_DrainTerminates == (ui_pc = "draining") ~> (ui_pc = "idle")

\* C4: the buffer never holds more than CAPACITY commands; a send_event
\* parks only on a full buffer and enqueues nothing then; a parked
\* send_event of a living session resumes only when the buffer has room
\* again, and its command goes to the tail of the queue.
C4_Backpressure ==
    [][ /\ Len(channel') <= CAPACITY
        /\ \A p \in Producers :
              /\ (senders[p].pc = "idle" /\ senders'[p].pc = "blocked")
                    => (Len(channel) = CAPACITY /\ channel' = channel /\ sent' = sent)
              /\ (senders[p].pc = "idle" /\ senders'[p] # senders[p] /\ calls' # calls
                     /\ receiver /\ Len(channel) = CAPACITY)
                    => senders'[p].pc = "blocked"
              /\ (senders[p].pc = "blocked" /\ senders'[p].pc # "blocked" /\ receiver)
                    => /\ Len(channel) < CAPACITY
                       /\ channel' = Append(channel, senders[p].cmd)
                       /\ sent' = Append(sent, senders[p].cmd)
      ]_vars

\* A command that was parked has been applied after a later one.
C4_Witness == \E i \in 1..(Len(model) - 1) : model[i] > model[i + 1]

\* C5: once the receiver is gone nothing is enqueued and nothing is applied;
\* every send_event that returns returns the error carrying its command, and
\* no send_event parks.
C5_SendAfterDrop ==
    [][ ~receiver =>
          /\ channel' = <<>> /\ model' = model /\ sent' = sent
          /\ \A p \in Producers :
                /\ senders'[p].pc = "blocked" => senders[p].pc = "blocked"
                /\ (senders'[p] # senders[p] /\ senders'[p].pc # "dropped")
                      => /\ senders'[p].pc = "idle"
                         /\ senders'[p].result = "err"
                         /\ senders'[p].cmd = IF senders[p].pc = "blocked"
                                                 THEN senders[p].cmd ELSE calls + 1
      ]_vars

\* A send made after the drop has returned the error with its command, and
\* so has a send that was parked when the receiver went.
C5_Witness ==
    /\ ~receiver /\ late >= 1
    /\ \E p, q \in Producers :
          /\ senders[p].result = "err" /\ senders[p].cmd = calls
          /\ senders[q].result = "err" /\ senders[q].cmd < calls

\* C6: a drain that finds the channel empty can return at once, whatever the
\* senders' state, and returns with the model as it was; with every sender
\* dropped, the queued commands are still handed to the model, oldest first.
C6_EmptyOrDisconnected ==
    /\ []((ui_pc = "draining" /\ channel = <<>>) => ENABLED process_commands_end)
    /\ []((ui_pc = "draining" /\ channel # <<>>) => ENABLED process_commands_next)
    /\ [][ /\ (ui_pc = "draining" /\ channel = <<>>) => model' = model
           /\ (ui_pc = "draining" /\ channel = <<>> /\ ui_pc' # ui_pc) => ui_pc' = "idle"
           /\ (ui_pc = "draining" /\ channel # <<>> /\ AllSendersDropped)
                 => (model' = Append(model, Head(channel)) /\ channel' = Tail(channel))
         ]_vars

\* Every sender is gone and the drain is handing over what they left.
C6_Witness ==
    /\ AllSendersDropped /\ ui_pc = "draining"
    /\ model # <<>> /\ channel # <<>>

\* The calls of one kind among the calls made on a session this frame.
CallsOf(q, tag) == SelectSeq(q, LAMBDA e : e[1] = tag)

\* C2: among the calls a frame makes on an entity's session, no command
\* follows an event: every command drained in the frame is applied before
\* the frame's first input event is fed.
C2_CommandsBeforeEvents ==
    \A u \in UIs : \A i, j \in 1..Len(ui[u].calls) :
        (i < j /\ ui[u].calls[i][1] = "event") => ui[u].calls[j][1] # "command"

\* A frame has applied a drained command to a session and then fed it an event.
C2_Witness ==
    \E u \in UIs : \E i, j \in 1..Len(ui[u].calls) :
        /\ i < j
        /\ ui[u].calls[i][1] = "command"
        /\ ui[u].calls[j][1] = "event"

\* The step in which a frame decides about entity u's size.
ResizeStep(u) ==
    /\ fpc.u = u
    /\ fpc.at \in {"entity", "render_entity"}
    /\ fpc' # fpc

ResizeCalled(u) == Len(CallsOf(ui'[u].calls, "resize")) > Len(CallsOf(ui[u].calls, "resize"))

\* C7: resize is called on an entity in a frame exactly when the primary
\* window's size is not the size last applied to the entity, and in no other
\* step; so frames that follow one another with the same size resize once.
C7_ResizeIffSizeDiffers ==
    [][ \A u \in UIs :
           /\ ResizeCalled(u) => ResizeStep(u)
           /\ ResizeStep(u) => (ResizeCalled(u) <=> Some(primary) # ui[u].applied)
      ]_vars

\* The notifications that change the size: each one that differs from the
\* size seen before it.
RECURSIVE Changes(_, _)
Changes(seen, q) ==
    IF q = <<>> THEN <<>>
    ELSE IF Head(q) = seen THEN Changes(seen, Tail(q))
    ELSE <<Head(q)>> \o Changes(Head(q), Tail(q))

RECURSIVE IsSubsequence(_, _)
IsSubsequence(a, b) ==
    IF a = <<>> THEN TRUE
    ELSE IF b = <<>> THEN FALSE
    ELSE IF Head(a) = Head(b) THEN IsSubsequence(Tail(a), Tail(b))
    ELSE IsSubsequence(a, Tail(b))

ResizeEvents(q) == [i \in 1..Len(CallsOf(q, "Resize")) |->
                       <<CallsOf(q, "Resize")[i][2], CallsOf(q, "Resize")[i][3]>>]

\* C8: the Resize events of a frame's queue are, in order, among the
\* notifications that differ from the size last seen; a notification that
\* repeats the size gives no Resize event.
C8_ResizeEventOnlyOnChange ==
    [][ (fpc.at = "collect" /\ fpc'.at # "collect")
           => IsSubsequence(ResizeEvents(events'), Changes(last_seen, host.resize))
      ]_vars

\* C9: in a frame draw is called on an entity at most once, each draw comes
\* straight after a needs_redraw that returned true, and each needs_redraw
\* that returned true is followed by that one draw.
C9_DrawOnceWhenNeeded ==
    \A u \in UIs :
        LET q == ui[u].calls IN
        /\ Len(CallsOf(q, "draw")) <= 1
        /\ \A i \in 1..Len(q) :
              /\ q[i] = <<"draw">> => (i > 1 /\ q[i - 1] = <<"needs_redraw", TRUE>>)
              /\ q[i] = <<"needs_redraw", TRUE>> => (i < Len(q) /\ q[i + 1] = <<"draw">>)
              /\ q[i] = <<"needs_redraw", FALSE>> => i = Len(q)

\* A frame has ended in which one entity was redrawn and another, clean, was not.
C9_Witness ==
    /\ fpc = Idle /\ frames >= 2
    /\ \E u, v \in UIs :
          /\ Len(CallsOf(ui[u].calls, "draw")) = 1
          /\ Last(ui[v].calls) = <<"needs_redraw", FALSE>>

\* Nothing has happened to entity u since its last frame: no input event, the
\* window has the size applied, no command is queued, and the stylesheet is
\* the one the session has.
Quiet(u) ==
    /\ events = <<>>
    /\ Some(primary) = ui[u].applied
    /\ wrapper[u].receiver = <<>>
    /\ handle[u] => stylesheets = ui[u].style

NoSessionCall(u) ==
    \A i \in 1..Len(ui[u].calls) :
        ui[u].calls[i][1] \notin {"resize", "replace_stylesheet", "command", "event", "draw"}

\* C10: in a quiet frame the update system (UpdateUi::run) calls none of
\* resize, replace_stylesheet, command and event on a clean session, which
\* stays clean and is not drawn.
C10_QuietFrameStaysClean ==
    [][ rev = "new" =>
          \A u \in UIs :
             (Quiet(u) /\ ~ui[u].dirty /\ NoSessionCall(u) /\ fpc.u = u /\ fpc' # fpc)
                => (NoSessionCall(u)' /\ ~ui'[u].dirty)
      ]_vars

\* ------------------------------------------------- claims on reconciliation

\* An entity step of the render systems: entity u is reconciled.
EntityStep(u) == fpc = [at |-> "reconcile", u |-> u] /\ fpc' # fpc

\* The host textures some entity's id-to-texture map holds.
MappedTextures == UNION {Mapped(textures[u]) : u \in UIs}

\* C11: every live host texture is the one its id is mapped to, so at most
\* one host texture per id is live: a Texture update for an id that is
\* already mapped releases the texture the id was mapped to, and the map
\* holds the new one.
C11_OneLiveTexturePerId == host_textures = MappedTextures

\* The render commands the entity step emits for its entity.
Emitted ==
    IF rev = "old"
       THEN SubSeq(render_commands', Len(render_commands) + 1, Len(render_commands'))
       ELSE render_commands'

Emits(q, name) == \E i \in 1..Len(q) : q[i][1] = name

\* The entity step redraws with a draw list of zero vertices and gets as far
\* as the vertex buffer.
DrawsZeroVertices(u) ==
    /\ EntityStep(u)
    /\ last_draw' # None
    /\ last_draw'[1].vertices = 0
    /\ fpc'.at # "panicked"

\* C12: a redraw with zero vertices after a non-empty one releases the
\* entity's vertex buffer, records none and creates no buffer; an entity
\* without a recorded vertex buffer gets no SetVertexBuffer and no Draw.
C12_EmptyDrawReleasesBuffer ==
    [][\A u \in RenderUIs :
          /\ DrawsZeroVertices(u) /\ vertex_buffer[u] # None =>
                /\ vertex_buffer'[u] = None
                /\ vertex_buffer[u][1] \notin buffers'
                /\ next_buffer' = next_buffer
          /\ EntityStep(u) /\ vertex_buffer'[u] = None =>
                /\ ~Emits(Emitted, "SetVertexBuffer")
                /\ ~Emits(Emitted, "Draw")]_vars

\* The vertex buffers the entities record.
RecordedBuffers == {vertex_buffer[u][1] : u \in {v \in UIs : vertex_buffer[v] # None}}

\* The entity step redraws with a non-empty vertex list and gets as far as
\* the vertex buffer.
DrawsVertices(u) ==
    /\ EntityStep(u)
    /\ last_draw' # None
    /\ last_draw'[1].vertices > 0
    /\ fpc'.at # "panicked"

\* C13: a redraw with a non-empty vertex list creates a fresh vertex buffer
\* of vertex_count * size_of(Vertex) bytes, records it, and releases the
\* previous buffer only after that; the live vertex buffers are always
\* exactly the recorded ones, at most one per entity.
C13_FreshBufferBeforeRelease ==
    /\ [](buffers = RecordedBuffers)
    /\ [][\A u \in RenderUIs : DrawsVertices(u) =>
            \E i \in 1..Len(ops') :
               /\ ops'[i].by.kind = "vertices"
               /\ ops'[i].call = <<"create_buffer", "VERTEX",
                                   last_draw'[1].vertices * VERTEX_SIZE, next_buffer + 1>>
               /\ vertex_buffer'[u] = Some(next_buffer + 1)
               /\ next_buffer + 1 \notin buffers
               /\ \A j \in 1..Len(ops') : ops'[j].call[1] = "remove_buffer" => j > i
               /\ vertex_buffer[u] # None =>
                     /\ \E j \in 1..Len(ops') :
                           ops'[j].call = <<"remove_buffer", vertex_buffer[u][1]>>
                     /\ vertex_buffer[u][1] \notin buffers']_vars

\* An entity's vertex buffer was replaced: the fresh one is recorded and the
\* previous one released.
C13_Witness ==
    \E u \in RenderUIs :
       /\ vertex_buffer[u] # None
       /\ last_draw # None
       /\ last_draw[1].vertices > 0
       /\ \E j \in 1..Len(ops) : ops[j].call[1] = "remove_buffer"
       /\ buffers = {vertex_buffer[u][1]}

\* The smallest multiple of ROW_ALIGN that is at least n.
AlignUp(n) == ((n + ROW_ALIGN - 1) \div ROW_ALIGN) * ROW_ALIGN

\* The calls of ops' made for an update of the given kind.
CallsFor(kind, name) ==
    {i \in 1..Len(ops') : ops'[i].by.kind = kind /\ ops'[i].call[1] = name}

\* C14: the buffer staged for a TextureSubresource update of width w and
\* height h has the row stride AlignUp(4 * w), the smallest multiple of 256
\* that is at least 4 * w, and stride * h bytes, and the copy is given the
\* same stride as its bytes per row.
C14_SubresourceStride ==
    [][\A u \in RenderUIs : EntityStep(u) =>
          /\ \A i \in CallsFor("TextureSubresource", "create_buffer") :
                ops'[i].call[3] = AlignUp(ops'[i].by.size[1] * BYTES_PER_PIXEL) * ops'[i].by.size[2]
          /\ \A i \in CallsFor("TextureSubresource", "copy_buffer_to_texture") :
                /\ ops'[i].call[2].bytes_per_row = AlignUp(ops'[i].by.size[1] * BYTES_PER_PIXEL)
                /\ ops'[i].call[2].buffer
                     = ops'[i].call[2].bytes_per_row * ops'[i].by.size[2]]_vars

\* C15: the copy of a Texture update that carries data is given a bytes per
\* row that is a multiple of 256 and covers a row of 4 * width bytes, and the
\* staged buffer holds rows of that many bytes.
C15_TextureStride ==
    [][\A u \in RenderUIs : EntityStep(u) =>
          \A i \in CallsFor("Texture", "copy_buffer_to_texture") :
             /\ ops'[i].call[2].bytes_per_row % ROW_ALIGN = 0
             /\ ops'[i].call[2].bytes_per_row >= ops'[i].by.size[1] * BYTES_PER_PIXEL
             /\ ops'[i].call[2].buffer
                  = ops'[i].call[2].bytes_per_row * ops'[i].by.size[2]]_vars

\* The host texture the id of call i of ops' is mapped to when the call is
\* made: the one created last for the id earlier in the step, or else the one
\* entity u had mapped before the step; 0 for none.
TargetAt(u, i) ==
    LET id == ops'[i].by.id
        js == {j \in 1..(i - 1) : ops'[j].call[1] = "create_texture" /\ ops'[j].by.id = id}
    IN IF js = {} THEN textures[u][id]
       ELSE ops'[CHOOSE j \in js : \A k \in js : k <= j].call[2]

\* C16: a TextureSubresource update is copied into the host texture its id
\* is mapped to, at the origin (offset[0], offset[1], 0) and with the
\* update's extent; it creates no texture and leaves the id-to-texture map as
\* it is; for an id that is not mapped the update faults.
C16_SubresourceIntoMapped ==
    [][\A u \in RenderUIs : EntityStep(u) =>
          /\ \A i \in CallsFor("TextureSubresource", "copy_buffer_to_texture") :
                /\ TargetAt(u, i) # 0
                /\ ops'[i].call[2].texture = TargetAt(u, i)
                /\ ops'[i].call[2].origin = <<ops'[i].by.offset[1], ops'[i].by.offset[2], 0>>
                /\ ops'[i].call[2].size = <<ops'[i].by.size[1], ops'[i].by.size[2], 1>>
          /\ CallsFor("TextureSubresource", "create_texture") = {}
          /\ \A id \in TexIds :
                textures'[u][id] # textures[u][id] =>
                   /\ last_draw' # None
                   /\ \E k \in 1..Len(last_draw'[1].updates) :
                         /\ last_draw'[1].updates[k].kind = "Texture"
                         /\ last_draw'[1].updates[k].id = id
          /\ host_textures' # host_textures =>
                \E i \in 1..Len(ops') : ops'[i].by.kind = "Texture"
          /\ \A i \in CallsFor("TextureSubresource", "create_buffer") :
                IF TargetAt(u, i) = 0
                   THEN i = Len(ops') /\ fpc' = Panicked(u)
                   ELSE /\ i < Len(ops')
                        /\ ops'[i + 1].by = ops'[i].by
                        /\ ops'[i + 1].call[1] = "copy_buffer_to_texture"]_vars

\* A TextureSubresource update was copied into the texture of its id.
C16_Witness ==
    /\ fpc.at # "panicked"
    /\ \E i \in 1..Len(ops) :
          /\ ops[i].by.kind = "TextureSubresource"
          /\ ops[i].call[1] = "copy_buffer_to_texture"
          /\ \E u \in RenderUIs : ops[i].call[2].texture = textures[u][ops[i].by.id]

\* ------------------------------------------------ claims on the keyboard loop

\* The characters a key can type: empty for a key without a table entry.
TextsOf(key) ==
    {t[1] : t \in {translate_key_to_text(key, [shift |-> b]) : b \in BOOLEAN} \ {None}}

\* C17: in the revision that derives text from keys, each Press of a key
\* that types a character is directly followed by the Text of that
\* character, and each Text directly follows such a Press.
C17_PressThenText ==
    key_rev = "old" =>
       /\ \A i \in 1..Len(key_out) :
             key_out[i][1] = "Press" /\ TextsOf(key_out[i][2]) # {} =>
                /\ i < Len(key_out)
                /\ key_out[i + 1][1] = "Text"
                /\ key_out[i + 1][2] \in TextsOf(key_out[i][2])
       /\ \A i \in 1..Len(key_out) :
             key_out[i][1] = "Text" =>
                /\ i > 1
                /\ key_out[i - 1][1] = "Press"
                /\ key_out[i][2] \in TextsOf(key_out[i - 1][2])

ShiftHeld(held) == held \cap {"LShift", "RShift"} # {}

\* The characters of the Text events of q, in order.
RECURSIVE TextsIn(_)
TextsIn(q) ==
    IF q = <<>> THEN <<>>
    ELSE (IF Head(q)[1] = "Text" THEN <<Head(q)[2]>> ELSE <<>>) \o TextsIn(Tail(q))

\* The characters the key presses of evs type when the shift state is that
\* of the shift keys that are down: the keys in held, then those of evs.
RECURSIVE TypedBy(_, _)
TypedBy(held, evs) ==
    IF evs = <<>> THEN <<>>
    ELSE LET ev   == Head(evs)
             key  == translate_key_code(ev.key_code)
             text == IF key = None \/ ev.state # "Pressed" THEN None
                     ELSE translate_key_to_text(key[1], [shift |-> ShiftHeld(held)])
         IN (IF text = None THEN <<>> ELSE <<text[1]>>)
            \o TypedBy(Held(held, <<ev>>), Tail(evs))

\* C18: in the revision that derives text from keys, the Text events of a
\* frame are the characters its key presses type under the shift state at
\* each press: lowercase with no shift key down, uppercase with one down,
\* nothing for a key without a table entry.
C18_TextFollowsShift ==
    key_rev = "old" => TextsIn(key_out) = TypedBy(key_held, key_in)

\* The modifier a key code belongs to, "" for a key that is no modifier.
FlagOf(key_code) ==
    CASE key_code \in {"LControl", "RControl"} -> "ctrl"
      [] key_code \in {"LAlt", "RAlt"} -> "alt"
      [] key_code \in {"LShift", "RShift"} -> "shift"
      [] key_code \in {"LWin", "RWin"} -> "logo"
      [] OTHER -> ""

\* The records of the Modifiers events of q, in order.
RECURSIVE ModifiersIn(_)
ModifiersIn(q) ==
    IF q = <<>> THEN <<>>
    ELSE (IF Head(q)[1] = "Modifiers" THEN <<Head(q)[2]>> ELSE <<>>) \o ModifiersIn(Tail(q))

\* The records after each modifier key event of evs when every event sets
\* the flag of its own modifier, and no other, to (state = Pressed).
RECURSIVE OwnFlags(_, _)
OwnFlags(mods, evs) ==
    IF evs = <<>> THEN <<>>
    ELSE LET ev == Head(evs) IN
         IF FlagOf(ev.key_code) = "" THEN OwnFlags(mods, Tail(evs))
         ELSE LET next == [mods EXCEPT ![FlagOf(ev.key_code)] = (ev.state = "Pressed")]
              IN <<next>> \o OwnFlags(next, Tail(evs))

\* C19: each event of a ctrl, alt, shift or logo key sets the flag of its
\* own modifier and no other to (state = Pressed) and appends one Modifiers
\* event with the whole record; the persistent record is the last of them.
C19_ModifierSetsOwnFlag ==
    LET records == OwnFlags(key_before, key_in)
    IN /\ ModifiersIn(key_out) = records
       /\ key_mods = IF records = <<>> THEN key_before ELSE Last(records)

\* The Press and Release events of q, in order.
RECURSIVE PressReleaseIn(_)
PressReleaseIn(q) ==
    IF q = <<>> THEN <<>>
    ELSE (IF Head(q)[1] \in {"Press", "Release"} THEN <<Head(q)>> ELSE <<>>)
         \o PressReleaseIn(Tail(q))

\* One Press or Release, by the state, for each event of evs whose key code
\* is in the table of translate_key_code; nothing for the others.
RECURSIVE OnePerRecognized(_)
OnePerRecognized(evs) ==
    IF evs = <<>> THEN <<>>
    ELSE LET key == translate_key_code(Head(evs).key_code)
         IN (IF key = None THEN <<>>
             ELSE <<<<IF Head(evs).state = "Pressed" THEN "Press" ELSE "Release", key[1]>>>>)
            \o OnePerRecognized(Tail(evs))

\* C20: the Press and Release events of a frame are, in order, one per
\* keyboard event with a recognized key code, Press for Pressed and Release
\* for Released; an event with a missing or unrecognized key code yields
\* neither, nor a Text (every Text belongs to the Press of a recognized key
\* next to it), and the events after it are translated as ever.
C20_OneEventPerRecognizedKey ==
    /\ PressReleaseIn(key_out) = OnePerRecognized(key_in)
    /\ \A i \in 1..Len(key_out) :
          key_out[i][1] = "Text" =>
             /\ i < Len(key_out)
             /\ key_out[i + 1][1] = "Press"
             /\ key_out[i][2] \in TextsOf(key_out[i + 1][2])
    /\ key_rev = "new" => TextsIn(key_out) = <<>>

\* A frame with an unrecognized or missing key code followed by the press of
\* a recognized key, which is translated.
C20_Witness ==
    /\ Len(key_in) = 2
    /\ key_in[1].key_code \in {"F1", Missing}
    /\ key_in[2] = [key_code |-> "A", state |-> "Pressed"]
    /\ key_rev = "new"
    /\ key_out = <<<<"Press", "A">>>>

\* ------------------------------------------------ claims on the event queue

\* The step that builds a frame's event queue from the host's readers.
Collects == fpc.at = "collect" /\ fpc' # fpc

\* The events of q a predicate-free filter keeps: those whose tag is in tags.
RECURSIVE Tagged(_, _)
Tagged(q, tags) ==
    IF q = <<>> THEN <<>>
    ELSE (IF Head(q)[1] \in tags THEN <<Head(q)>> ELSE <<>>) \o Tagged(Tail(q), tags)

MouseKeys == {"LeftMouseButton", "RightMouseButton", "MiddleMouseButton"}

\* The Press and Release events of q on the mouse keys, in order.
RECURSIVE MouseEventsIn(_)
MouseEventsIn(q) ==
    IF q = <<>> THEN <<>>
    ELSE (IF Head(q)[1] \in {"Press", "Release"} /\ Head(q)[2] \in MouseKeys
             THEN <<Head(q)>> ELSE <<>>)
         \o MouseEventsIn(Tail(q))

\* One Press or Release of the button's key for each event of the left, the
\* right or the middle button, nothing for another button.
RECURSIVE OnePerButton(_)
OnePerButton(evs) ==
    IF evs = <<>> THEN <<>>
    ELSE LET b == Head(evs).button
             tag == IF Head(evs).state = "Pressed" THEN "Press" ELSE "Release"
         IN (CASE b = "Left" -> <<<<tag, "LeftMouseButton">>>>
               [] b = "Right" -> <<<<tag, "RightMouseButton">>>>
               [] b = "Middle" -> <<<<tag, "MiddleMouseButton">>>>
               [] OTHER -> <<>>)
            \o OnePerButton(Tail(evs))

\* C21: the mouse Press and Release events of a frame are, in order, one per
\* event of the left, right or middle button, matching its state and its
\* button, with nothing for any other button; the Scroll events are one per
\* wheel event with the host's deltas.
C21_MouseButtonsAndWheel ==
    [][Collects =>
          /\ MouseEventsIn(events') = OnePerButton(host.button)
          /\ Tagged(events', {"Scroll"})
               = [i \in 1..Len(host.wheel) |-> <<"Scroll", host.wheel[i][1], host.wheel[i][2]>>]]_vars

\* A frame was given a wheel event and a press of the middle button: its
\* queue holds the Scroll and the Press.
C21_Witness ==
    /\ events = <<<<"Scroll", 0 - 2, 3>>, <<"Press", "MiddleMouseButton">>>>
    /\ fpc.at \notin {"idle", "collect"}

\* C22: the Cursor events of a frame are, in order, one per cursor move at
\* (x, y), each Cursor(x, H - y) for the height H the primary window has in
\* that frame, and flipping the event's y against H again gives y back.
C22_CursorFlipped ==
    [][Collects =>
          /\ Tagged(events', {"Cursor"})
               = [i \in 1..Len(host.cursor) |->
                     <<"Cursor", host.cursor[i][1], f32(primary[2]) - host.cursor[i][2]>>]
          /\ \A i \in 1..Len(Tagged(events', {"Cursor"})) :
                sub_f32(f32(primary[2]), Tagged(events', {"Cursor"})[i][3])
                   = host.cursor[i][2]]_vars

\* C23: in the revision of update.rs the Text events of a frame are, in
\* order, one Text(c) per received character c of that frame, and none
\* comes from a key press, whatever the modifiers.
C23_TextFromCharacters ==
    [][Collects /\ rev = "new" =>
          Tagged(events', {"Text"}) = [i \in 1..Len(host.chars) |-> <<"Text", host.chars[i]>>]]_vars

\* A frame of update.rs was given the press of A and the character Z: the
\* queue holds the Press and the Text of the character.
C23_Witness ==
    /\ rev = "new"
    /\ events = <<<<"Press", "A">>, <<"Text", "Z">>>>
    /\ fpc.at \notin {"idle", "collect"}

\* ------------------------------------------------------ claims on emission

\* The entity step of a render system emits the stored commands of entity u:
\* the entity has a vertex buffer and no unwrap failed.
EmitsFor(u) ==
    /\ EntityStep(u)
    /\ rev \in {"oldest", "old"}
    /\ vertex_buffer'[u] # None
    /\ fpc'.at # "panicked"

\* The display scale factors a host may have.
ScaleFactors == {1, 2}

\* C24: for every Clip command of an entity the emitter appends a scissor
\* rect command with the clip's left, top, width and height multiplied by
\* the display scale factor.
C24_ClipEmitsScissor ==
    [][\A u \in RenderUIs : EmitsFor(u) =>
          \A i \in 1..Len(draw_commands'[u]) :
             draw_commands'[u][i].kind = "Clip" =>
                \E s \in ScaleFactors, j \in 1..Len(Emitted) :
                   Emitted[j] = <<"SetScissorRect",
                                  draw_commands'[u][i].scissor[1] * s,
                                  draw_commands'[u][i].scissor[2] * s,
                                  draw_commands'[u][i].scissor[3] * s,
                                  draw_commands'[u][i].scissor[4] * s>>]_vars

\* One Draw over [offset, offset + count) with one instance for each Colored
\* and each Textured command of cmds, in order.
RECURSIVE DrawsOf(_)
DrawsOf(cmds) ==
    IF cmds = <<>> THEN <<>>
    ELSE (IF Head(cmds).kind \in {"Colored", "Textured"}
             THEN <<<<"Draw", Head(cmds).offset, Head(cmds).offset + Head(cmds).count, 1>>>>
             ELSE <<>>)
         \o DrawsOf(Tail(cmds))

\* The first command of q with the given name, 0 for none.
FirstOf(q, name) ==
    IF Emits(q, name) THEN CHOOSE i \in 1..Len(q) : q[i][1] = name /\ \A j \in 1..(i - 1) : q[j][1] # name
    ELSE 0

\* The sampler the render system holds after the step.
SamplerNow == sampler_id'[1]

\* C25: for an entity with a vertex buffer the Draws emitted are, in command
\* order, one per Colored and one per Textured command, each over
\* [offset, offset + count) with one instance, and none for Nop; when the
\* first draw of a pass without bind group is a Colored one, a texture of
\* the entity is bound with the sampler before it; no Draw in the command
\* list precedes the first SetBindGroup.
C25_DrawPerCommand ==
    [][\A u \in RenderUIs : EmitsFor(u) =>
          /\ Tagged(Emitted, {"Draw"}) = DrawsOf(draw_commands'[u])
          /\ (rev = "oldest" \/ ~bind_group_set) /\ Emits(Emitted, "Draw") =>
                /\ FirstOf(Emitted, "SetBindGroup") # 0
                /\ FirstOf(Emitted, "SetBindGroup") < FirstOf(Emitted, "Draw")
                /\ Emitted[FirstOf(Emitted, "SetBindGroup")][2] \in Mapped(textures'[u])
                /\ Emitted[FirstOf(Emitted, "SetBindGroup")][3] = SamplerNow
          /\ FirstOf(render_commands', "Draw") # 0 =>
                /\ FirstOf(render_commands', "SetBindGroup") # 0
                /\ FirstOf(render_commands', "SetBindGroup") < FirstOf(render_commands', "Draw")]_vars

\* An entity whose commands are a Nop and a Colored draw was emitted: its
\* segment binds a texture and draws once.
C25_Witness ==
    \E u \in RenderUIs :
       /\ draw_commands[u] = <<[kind |-> "Nop"], [kind |-> "Colored", offset |-> 0, count |-> 3]>>
       /\ vertex_buffer[u] # None
       /\ fpc.at # "panicked"
       /\ \E i \in 1..(Len(render_commands) - 1) :
             /\ render_commands[i][1] = "SetBindGroup"
             /\ render_commands[i + 1] = <<"Draw", 0, 3, 1>>

\* The Colored and Textured commands of cmds, in order.
RECURSIVE DrawingIn(_)
DrawingIn(cmds) ==
    IF cmds = <<>> THEN <<>>
    ELSE (IF Head(cmds).kind \in {"Colored", "Textured"} THEN <<Head(cmds)>> ELSE <<>>)
         \o DrawingIn(Tail(cmds))

\* The positions of the Draw commands of q, in order.
RECURSIVE DrawPositions(_, _)
DrawPositions(q, i) ==
    IF i > Len(q) THEN <<>>
    ELSE (IF q[i][1] = "Draw" THEN <<i>> ELSE <<>>) \o DrawPositions(q, i + 1)

\* The drawing commands of cmds before the first Textured one whose id tex
\* does not map.
RECURSIVE BeforeAbsent(_, _)
BeforeAbsent(cmds, tex) ==
    IF cmds = <<>> THEN <<>>
    ELSE IF Head(cmds).kind = "Textured" /\ tex[Head(cmds).texture] = 0 THEN <<>>
    ELSE <<Head(cmds)>> \o BeforeAbsent(Tail(cmds), tex)

HasAbsent(cmds, tex) ==
    \E i \in 1..Len(cmds) : cmds[i].kind = "Textured" /\ tex[cmds[i].texture] = 0

\* C26: the emission of an entity that has a Textured command whose id is
\* not in the entity's id-to-texture map faults, with no bind group and no
\* Draw for that command; a Textured command whose id is mapped binds the
\* texture of that id with the sampler directly before its Draw.
C26_TexturedResolvesOrFaults ==
    [][\A u \in RenderUIs :
          /\ EntityStep(u) /\ rev \in {"oldest", "old"} /\ vertex_buffer'[u] # None
             /\ HasAbsent(draw_commands'[u], textures'[u]) =>
                /\ fpc' = Panicked(u)
                /\ Len(Tagged(Emitted, {"Draw"}))
                     <= Len(DrawingIn(BeforeAbsent(draw_commands'[u], textures'[u])))
                /\ \A j \in 1..Len(Emitted) : Emitted[j][1] = "SetBindGroup" => Emitted[j][2] # 0
          /\ EmitsFor(u) =>
                LET dc == DrawingIn(draw_commands'[u])
                    at == DrawPositions(Emitted, 1)
                IN \A k \in 1..Len(dc) :
                      dc[k].kind = "Textured" =>
                         /\ k <= Len(at)
                         /\ at[k] > 1
                         /\ Emitted[at[k] - 1]
                              = <<"SetBindGroup", textures'[u][dc[k].texture], SamplerNow>>]_vars

\* The emission of an entity with a vertex buffer faulted on a Textured
\* command whose id was never mapped.
C26_Witness ==
    \E u \in RenderUIs :
       /\ fpc = Panicked(u)
       /\ vertex_buffer[u] # None
       /\ HasAbsent(draw_commands[u], textures[u])
       /\ Mapped(textures[u]) # {}

\* The ids the Texture updates of a DrawList introduce.
Introduced(dl) ==
    {dl.updates[k].id : k \in {j \in 1..Len(dl.updates) : dl.updates[j].kind = "Texture"}}

\* The DrawList the entity step of u is given refers only to texture ids of
\* its own Texture updates or of the entity's earlier ones.
WellFormedDraw(u) ==
    last_draw' # None =>
       \A i \in 1..Len(last_draw'[1].commands) :
          last_draw'[1].commands[i].kind = "Textured" =>
             \/ last_draw'[1].commands[i].texture \in Introduced(last_draw'[1])
             \/ textures[u][last_draw'[1].commands[i].texture] # 0

\* C27: an id once mapped stays mapped; the Texture updates of a DrawList
\* are in the map when the step that was given the list ends; and when the
\* DrawLists refer only to ids their own or earlier Texture updates
\* introduced, every Textured command stored for an entity resolves in the
\* entity's map.
C27_StoredTexturedResolve ==
    [][\A u \in RenderUIs : EntityStep(u) /\ rev \in {"oldest", "old"} =>
          /\ \A id \in TexIds : textures[u][id] # 0 => textures'[u][id] # 0
          /\ last_draw' # None /\ fpc'.at # "panicked" =>
                \A id \in Introduced(last_draw'[1]) : textures'[u][id] # 0
          /\ WellFormedDraw(u) /\ ~HasAbsent(draw_commands[u], textures[u]) =>
                ~HasAbsent(draw_commands'[u], textures'[u])]_vars

\* An entity was given a DrawList whose Texture update introduces the id of
\* its Textured command, and the command was emitted with that texture.
C27_Witness ==
    \E u \in RenderUIs :
       /\ last_draw # None
       /\ 1 \in Introduced(last_draw[1])
       /\ draw_commands[u] = last_draw[1].commands
       /\ HasAbsent(draw_commands[u], [i \in TexIds |-> 0])
       /\ fpc.at # "panicked"
       /\ \E j \in 1..Len(render_commands) :
             /\ render_commands[j][1] = "SetBindGroup"
             /\ render_commands[j][2] = textures[u][1]

\* The positions of the commands of q with the given name, in order.
RECURSIVE PositionsOf(_, _, _)
PositionsOf(q, name, i) ==
    IF i > Len(q) THEN <<>>
    ELSE (IF q[i][1] = name THEN <<i>> ELSE <<>>) \o PositionsOf(q, name, i + 1)

\* The entities from u on that have a vertex buffer, in iteration order.
RECURSIVE WithBuffer(_)
WithBuffer(u) ==
    IF u > entities THEN <<>>
    ELSE (IF vertex_buffer[u] # None THEN <<u>> ELSE <<>>) \o WithBuffer(u + 1)

\* q is one SetPipeline followed by one segment per entity with a vertex
\* buffer, in iteration order: the entity's SetVertexBuffer, then nothing
\* but bind groups and the Draws of the entity's commands.
OnePassList(q) ==
    LET at == PositionsOf(q, "SetVertexBuffer", 1)
        us == WithBuffer(1)
        end(k) == IF k < Len(at) THEN at[k + 1] - 1 ELSE Len(q)
    IN /\ q # <<>>
       /\ PositionsOf(q, "SetPipeline", 1) = <<1>>
       /\ Len(at) = Len(us)
       /\ at = <<>> => Len(q) = 1
       /\ at # <<>> => at[1] = 2
       /\ \A k \in 1..Len(at) :
             /\ q[at[k]] = <<"SetVertexBuffer", vertex_buffer[us[k]][1]>>
             /\ \A j \in (at[k] + 1)..end(k) : q[j][1] \in {"SetBindGroup", "Draw"}
             /\ Tagged(SubSeq(q, at[k], end(k)), {"Draw"}) = DrawsOf(draw_commands[us[k]])

\* C28: the command list a run of render_ui hands to the graph node is one
\* list that starts with the only SetPipeline and holds, in iteration order,
\* one contiguous segment per entity with a vertex buffer (its
\* SetVertexBuffer, then its bind groups and Draws) and nothing for an
\* entity without one.
C28_OnePassCommandList ==
    rev = "old" =>
       /\ fpc.at = "store" => OnePassList(render_commands)
       /\ fpc = Idle /\ frames > 0 => command_buffer = render_commands /\ OnePassList(command_buffer)

\* A run over two entities with vertex buffers and draws handed over one
\* list with two segments.
C28_Witness ==
    /\ rev = "old"
    /\ fpc = Idle
    /\ entities = 2
    /\ Len(PositionsOf(command_buffer, "SetVertexBuffer", 1)) = 2
    /\ Len(PositionsOf(command_buffer, "Draw", 1)) >= 3

\* A step in which render_ui (either emitter) passed its sampler and
\* pipeline setup.
SetsUp ==
    \/ rev = "old" /\ fpc.at = "run" /\ fpc' # fpc
    \/ rev = "oldest" /\ fpc.at = "reconcile" /\ fpc' # fpc /\ fpc'.at # "panicked"

\* C29: the first run of render_ui creates the sampler and compiles the
\* specialized pipeline; every later run keeps the sampler id, creates no
\* sampler and compiles no pipeline.
C29_SamplerAndPipelineOnce ==
    [][/\ SetsUp => sampler_id' # None /\ samplers' = 1 /\ pipelines' = 1
       /\ sampler_id # None => sampler_id' = sampler_id /\ samplers' = samplers
       /\ pipelines # 0 => pipelines' = pipelines]_vars

\* A second frame ran its setup with the sampler of the first.
C29_Witness ==
    /\ rev \in {"oldest", "old"}
    /\ frames = 2
    /\ fpc = Idle
    /\ sampler_id = Some(1)
    /\ samplers = 1
    /\ pipelines = 1

\* ------------------------------------------------------ claims on the plugin

\* A build of the plugin for a model type the app already holds it for.
BuildsAgain ==
    /\ registered' # registered
    /\ \E i \in 1..Len(registered) : registered[i] = registered'[Len(registered')]

\* C30: building the plugin on an app that already holds it changes nothing:
\* the graph keeps its one UI node and its edges, the pipeline asset under
\* the fixed handle is not built again, and the app's update systems stay as
\* they were after the first build.
C30_RegisterAgainIsNoOp ==
    [][BuildsAgain =>
          /\ graph_nodes' = graph_nodes /\ PIXEL_WIDGETS \in graph_nodes
          /\ slot_edges' = slot_edges /\ node_edges' = node_edges
          /\ pass_samples' = pass_samples
          /\ pipeline_builds' = 1 /\ UI_PIPELINE_HANDLE \in pipeline_assets'
          /\ app_systems' = app_systems]_vars

\* ------------------------------------------------- claims on failing hosts

\* The step of entity u in which a call that allocates on the GPU failed.
AllocationFails(u) ==
    /\ fpc = [at |-> "reconcile", u |-> u]
    /\ fpc' # fpc
    /\ \E i \in 1..Len(ops') :
          \/ ops'[i].call[1] = "create_texture" /\ ops'[i].call[2] = 0
          \/ ops'[i].call[1] = "create_buffer" /\ ops'[i].call[2] = "VERTEX" /\ ops'[i].call[4] = 0

\* C31: an allocation that fails while entity u is reconciled ends the draw
\* of u alone: the system does not panic but goes on to the next entity (or
\* hands the list over), and the vertex buffer and the draw commands
\* recorded for u stay as they were.
C31_AllocationFaultIsolated ==
    [][\A u \in RenderUIs : AllocationFails(u) =>
          /\ fpc'.at # "panicked"
          /\ fpc' = (IF u < entities THEN [at |-> "reconcile", u |-> u + 1]
                                     ELSE [at |-> "store", u |-> 0])
          /\ vertex_buffer'[u] = vertex_buffer[u]
          /\ draw_commands'[u] = draw_commands[u]]_vars

\* A call on the loader returned or unwound in this step.
LoaderCalled == loader_calls' # loader_calls

\* C32: every load and every wait on the DisabledLoader fails at once with
\* the panic that points to the host's asset system: the call yields no
\* bytes and no future, and the sessions, their channels and their draws are
\* as they were.
C32_DisabledLoaderFails ==
    [][LoaderCalled =>
          LET c == loader_calls'[Len(loader_calls')] IN
          /\ c.out = [kind |-> "panic",
                      message |-> "please load stylesheets using the bevy asset system"]
          /\ fpc'.at = "panicked"
          /\ ui' = ui /\ wrapper' = wrapper /\ draw' = draw /\ events' = events]_vars

\* A session that was fed events and drawn called wait on its loader.
C32_Witness ==
    /\ loader_calls # <<>>
    /\ loader_calls[1].method = "wait"
    /\ fpc.at = "panicked"
    /\ frames > 0
    /\ \E u \in UIs : ui[u].calls # <<>>

\* -------------------------------------------------- claims on the graph node

\* An update of the graph node.
NodeStep == node_updates' # node_updates

\* The position of the last SetPipeline before position i of q, 0 for none.
RECURSIVE LastPipeline(_, _)
LastPipeline(q, i) ==
    IF i <= 1 THEN 0
    ELSE IF q[i - 1][1] = "SetPipeline" THEN i - 1
    ELSE LastPipeline(q, i - 1)

\* Between the last SetPipeline and position i a command of the name occurs.
SetSince(q, i, name) ==
    \E j \in (LastPipeline(q, i) + 1)..(i - 1) : q[j][1] = name

\* Every slot of the UI pipeline's layout was set since the last SetPipeline
\* before position i, and for DrawIndexed the index buffer too.
Ready(q, i) ==
    /\ LastPipeline(q, i) > 0
    /\ SetSince(q, i, "SetVertexBuffer")
    /\ SetSince(q, i, "SetBindGroup")
    /\ q[i][1] = "DrawIndexed" => SetSince(q, i, "SetIndexBuffer")

\* The command at position i reached the pass.
Issued(made, i) == \E k \in 1..Len(made) : made[k] = PassCall(command_buffer[i], i)

\* The first position at which the node unwinds: a slot set with no
\* pipeline before it. Len(q) + 1 for none.
RECURSIVE Unwinds(_, _)
Unwinds(q, i) ==
    IF i > Len(q) THEN i
    ELSE IF q[i][1] \in {"SetVertexBuffer", "SetBindGroup"} /\ LastPipeline(q, i) = 0 THEN i
    ELSE Unwinds(q, i + 1)

IsDraw(c) == c[1] \in {"Draw", "DrawIndexed"}

\* C33: of the draws that follow a SetPipeline the node issues exactly those
\* for which every slot of the layout (and for DrawIndexed the index buffer)
\* was set since the most recent SetPipeline; a draw that is not ready is
\* skipped, and the commands after it are executed all the same, in order.
C33_DrawOnlyWhenLayoutSet ==
    [][NodeStep =>
          LET q == command_buffer
              made == pass'.calls
              stop == Unwinds(q, 1)
          IN /\ \A i \in 1..Len(q) :
                   IsDraw(q[i]) /\ LastPipeline(q, i) > 0 /\ Issued(made, i) => Ready(q, i)
             /\ \A i \in 1..(stop - 1) :
                   IsDraw(q[i]) /\ LastPipeline(q, i) > 0 =>
                      /\ Issued(made, i) <=> Ready(q, i)
                      /\ \A j \in (i + 1)..(stop - 1) : ~IsDraw(q[j]) => Issued(made, j)
             /\ \A k \in 1..(Len(made) - 1) : made[k].at < made[k + 1].at
             /\ pass'.ok <=> stop > Len(q)]_vars

\* The node skipped the Draw at position 3, which had no bind group, and
\* issued the Draw at position 5, which had one.
C33_Witness ==
    /\ node_updates = 1
    /\ pass.ok
    /\ Len(pass.calls) = 4
    /\ pass.calls[1].call[1] = "SetPipeline"
    /\ pass.calls[3] = PassCall(SetBindGroup(1, 1), 4)
    /\ pass.calls[4] = PassCall(<<"Draw", 0, 3, 1>>, 5)

\* C34: a command the render system wrote is executed by at most one update
\* of the node: an update executes what the shared buffer holds and leaves it
\* empty, the render system empties the buffer when it starts a run, only
\* the end of a run puts commands into it, and an update with no list
\* stored since the update before it calls nothing on the pass.
C34_CommandsExecutedAtMostOnce ==
    [][/\ NodeStep =>
             /\ \A k \in 1..Len(pass'.calls) :
                   pass'.calls[k].call = command_buffer[pass'.calls[k].at]
             /\ command_buffer' = <<>>
             /\ ~handed => pass'.calls = <<>>
       /\ rev = "old" /\ fpc.at = "run" /\ fpc' # fpc => command_buffer' = <<>>
       /\ command_buffer' # command_buffer /\ command_buffer' # <<>> =>
             fpc.at = "store" /\ command_buffer' = render_commands]_vars

\* The list of the first frame was drained by one update of the node; the
\* other update found nothing to execute.
C34_Witness ==
    /\ fpc = Idle
    /\ frames = 1
    /\ node_updates = 2
    /\ ~handed
    /\ \E i \in 1..Len(render_commands) : render_commands[i][1] = "Draw"
    /\ command_buffer = <<>>
    /\ pass.calls = <<>>

\* ------------------------------------------------ claims on frames at rest

\* The Draw commands an emitter derives for entity u from what is recorded
\* for it after the entity step.
DrawsRecorded(u) ==
    IF vertex_buffer'[u] # None THEN DrawsOf(draw_commands'[u]) ELSE <<>>

\* C35: an entity step in which needs_redraw() is false leaves the entity's
\* texture map, vertex buffer and stored commands as they were and makes no
\* call on the render resource context; the Draw commands every entity step
\* emits are those of the recorded commands, so with nothing recorded anew
\* they are the Draw commands of the frame before.
C35_NoRedrawNoChange ==
    [][\A u \in RenderUIs :
          /\ EntityStep(u) /\ last_draw' = None =>
                /\ textures'[u] = textures[u]
                /\ vertex_buffer'[u] = vertex_buffer[u]
                /\ draw_commands'[u] = draw_commands[u]
                /\ draw_updates'[u] = draw_updates[u]
                /\ ops' = <<>>
                /\ buffers' = buffers /\ next_buffer' = next_buffer
                /\ host_textures' = host_textures /\ next_texture' = next_texture
          /\ EntityStep(u) /\ rev \in {"oldest", "old"} /\ fpc'.at # "panicked" =>
                Tagged(Emitted, {"Draw"}) = DrawsRecorded(u)]_vars

\* The second frame of an entity with a vertex buffer and stored commands
\* ran without a redraw.
C35_Witness ==
    /\ frames = 2
    /\ fpc = Idle
    /\ last_draw = None
    /\ vertex_buffer[1] # None
    /\ draw_commands[1] # <<>>

\* The entity step of u redraws.
Redraws(u) == EntityStep(u) /\ last_draw' # None

\* The step left the stored commands and the vertex buffer of v alone.
BothKept(v) == draw_commands'[v] = draw_commands[v] /\ vertex_buffer'[v] = vertex_buffer[v]

\* Every draw command of the list stays within the list's vertices.
WithinVertices(dl) ==
    \A i \in 1..Len(dl.commands) :
       dl.commands[i].kind \in {"Colored", "Textured"} =>
          dl.commands[i].offset + dl.commands[i].count <= dl.vertices

\* The vertex buffer recorded for u after the step was created in the step
\* from the vertices of the list dl, or is none when the list has none.
BufferOf(u, dl) ==
    IF dl.vertices > 0 \/ rev = "oldest"
       THEN /\ vertex_buffer'[u] # None
            /\ vertex_buffer'[u] # vertex_buffer[u]
            /\ \E i \in 1..Len(ops') :
                  ops'[i].call = <<"create_buffer", "VERTEX", dl.vertices * VERTEX_SIZE,
                                   vertex_buffer'[u][1]>>
       ELSE vertex_buffer'[u] = None

\* C36: a redraw replaces the stored commands and the vertex buffer of the
\* entity together, by those of one DrawList (or, when it unwinds in the
\* updates, neither), and any other entity step leaves both as they were;
\* so when the commands of a DrawList stay within its vertices, no Draw
\* emitted for the entity ends beyond the vertices of the buffer bound.
C36_CommandsAndBufferTogether ==
    [][\A u \in RenderUIs :
          /\ Redraws(u) =>
                \/ BothKept(u) /\ fpc'.at = "panicked"
                \/ /\ draw_commands'[u] = last_draw'[1].commands
                   /\ BufferOf(u, last_draw'[1])
                   /\ rev \in {"oldest", "old"} /\ WithinVertices(last_draw'[1]) =>
                         \A i \in 1..Len(Emitted) :
                            Emitted[i][1] = "Draw" => Emitted[i][3] <= last_draw'[1].vertices
          /\ EntityStep(u) /\ ~Redraws(u) => BothKept(u)
          /\ EntityStep(u) => \A v \in RenderUIs \ {u} : BothKept(v)]_vars

\* The second redraw of an entity replaced its buffer and its commands by
\* those of a DrawList whose Textured command ends at the last vertex.
C36_Witness ==
    /\ frames = 2
    /\ fpc = Idle
    /\ last_draw # None
    /\ WithinVertices(last_draw[1])
    /\ last_draw[1].vertices = QUAD
    /\ draw_commands[1] = last_draw[1].commands
    /\ rev \in {"oldest", "old"}
    /\ \E i \in 1..Len(draw_commands[1]) : draw_commands[1][i].kind = "Textured"
    /\ vertex_buffer[1] = Some(2)
    /\ \E i \in 1..Len(render_commands) : render_commands[i] = <<"Draw", 3, 6, 1>>

\* ------------------------------------------------ C37: one queue, own channel

\* The entity loop of the running frame has fed entity u.
Fed(u) ==
    /\ frames > 0
    /\ \/ fpc.at \in {"idle", "render", "render_entity"}
       \/ fpc.at \in {"entity", "commands"} /\ fpc.u > u

\* The calls that feed the queue q, one per event, in order.
EventCalls(q) == [i \in 1..Len(q) |-> <<"event", q[i]>>]

\* The commands the running frame applied to entity u's session.
Applied(u) == {c[2] : c \in Range(CallsOf(ui[u].calls, "command"))}

\* The commands that went through entity u's channel: applied or waiting.
Through(u) == Applied(u) \cup Range(wrapper[u].receiver)

\* A step that applies a command to entity v's session.
Applies(v) ==
    Len(CallsOf(ui'[v].calls, "command")) > Len(CallsOf(ui[v].calls, "command"))

\* C37: in every frame each entity is fed the frame's one event queue, whole,
\* in order and once, and a session applies only commands of its own channel:
\* the command a step applies to an entity is the head of that entity's
\* receiver and leaves every other receiver and session alone, and no command
\* sent through one entity's sender is applied to, or waits for, another.
C37_SameEventsOwnCommands ==
    [][/\ \A u \in UIs :
             CallsOf(ui'[u].calls, "event")
                = IF Fed(u)' THEN EventCalls(events') ELSE <<>>
       /\ \A v \in UIs :
             Applies(v) =>
                /\ wrapper[v].receiver # <<>>
                /\ ui'[v].calls = Append(ui[v].calls, <<"command", Head(wrapper[v].receiver)>>)
                /\ wrapper'[v].receiver = Tail(wrapper[v].receiver)
                /\ \A w \in UIs \ {v} : ui'[w] = ui[w] /\ wrapper'[w] = wrapper[w]
       /\ \A u, v \in UIs : u # v => Through(u)' \cap Through(v)' = {}
       /\ \A u \in UIs :
             Cardinality(Through(u)') =
                Len(CallsOf(ui'[u].calls, "command")) + Len(wrapper'[u].receiver)]_vars

\* A frame fed two entities the same two events, applied a command to one of
\* them and none to the other.
C37_Witness ==
    /\ Len(events) = 2
    /\ \A u \in UIs : Fed(u) /\ CallsOf(ui[u].calls, "event") = EventCalls(events)
    /\ \E u, v \in UIs : Applied(u) # {} /\ Applied(v) = {}

\* ------------------------------------------------ C38: the order of production

\* The queue that keeps the order of production: every host event translated
\* where it stands, the modifier record carried from one to the next.
RECURSIVE InOrder(_, _, _, _)
InOrder(r, p, mods, window) ==
    IF p = <<>> THEN <<>>
    ELSE LET t == translate(r, readers(<<Head(p)>>), mods, window)
         IN t.out \o InOrder(r, Tail(p), t.mods, window)

\* C38: the translated queue of a frame is the translation of the host's
\* events in the order the host produced them, whatever their kinds.
C38_ProductionOrderKept ==
    [][Collects => events' = InOrder(rev, produced, modifiers, primary)]_vars

\* ------------------------------------------------ C39: left and right variants

\* The key codes that are down after the frame's keyboard events.
HeldNow == Held(key_held, key_in)

\* The record in which a modifier's flag is set exactly when a key of that
\* modifier, of either side, is down.
HeldFlags ==
    [f \in {"ctrl", "alt", "shift", "logo"} |-> \E k \in HeldNow : FlagOf(k) = f]

\* C39: after any presses and releases of the left and right keys of the
\* modifiers, a flag of the persistent record is set exactly when at least
\* one key of that modifier is down, and the last Modifiers event of the frame
\* carries that record.
C39_FlagWhileEitherHeld ==
    /\ key_mods = HeldFlags
    /\ ModifiersIn(key_out) # <<>> => Last(ModifiersIn(key_out)) = HeldFlags

====
